---- MODULE Spec2Model ----
(***************************************************************************)
(* Model of subline-go's probing and extraction pipeline (audio.go).       *)
(*                                                                         *)
(* A call of ProbeAudioTracks or ExtractAudio is a small-step machine over *)
(* its local variables (the record call[p]) and the objects it obtains     *)
(* from the media library: format contexts (sessions), codec contexts      *)
(* (decoders) and software resample contexts (resamplers).  The library is *)
(* modelled at the interface audio.go uses; what a library call answers is *)
(* a function of the container's content, so a container is a value of the *)
(* catalogue Container(path) below.                                        *)
(***************************************************************************)
EXTENDS Integers, Sequences, FiniteSets, TLC

(***************************************************************************)
(* Bounds of the model.                                                    *)
(***************************************************************************)
\* stream indexes a caller may ask for are -1 .. MaxStreamIndex
MaxStreamIndex == 3
\* frames a decoder keeps back until it gets more input or end-of-stream
DecoderDelay == 1
\* source samples consumed per sample of 16 kHz output
RateRatio == 2

(***************************************************************************)
(* Program constants.                                                      *)
(***************************************************************************)
DstSampleRate == 16000
BytesPerSample == 4

CallIds == {1, 2}
Handles == CallIds
NilHandle == 0

(***************************************************************************)
(* Go values.                                                              *)
(***************************************************************************)
NoError == "nil"
\* a nil slice: `var samples []float32`
NilSlice == [nil |-> TRUE, data |-> <<>>]
\* append(s, xs...): appending nothing to a nil slice leaves it nil
\* (faulty variant: the slice is replaced by what is appended)
GoAppendOverwrite(s, xs) ==
  IF xs = <<>> THEN s ELSE [nil |-> FALSE, data |-> xs]
GoAppend(s, xs) ==
  IF xs = <<>> THEN s ELSE [nil |-> FALSE, data |-> s.data \o xs]

\* the error messages of audio.go, by the failure they report
OpenFailure == "opening"
ProbeFailure == "finding stream info"
StreamNotFound == "stream index not found"
WrongStreamType == "stream is not an audio stream"
UnsupportedCodec == "decoder not found for codec"
ParamsFailure == "copying codec parameters"
CodecOpenFailure == "opening codec"
ReadFailure == "reading frame"
SendFailure == "sending packet to decoder"
ReceiveFailure == "receiving frame"
ConvertFailure == "converting frame"
FlushSendFailure == "flushing decoder"
FlushReceiveFailure == "receiving frame during flush"
FlushConvertFailure == "converting frame during flush"
FlushResamplerFailure == "flushing resampler"
FlushExtractFailure == "extracting flushed samples"

(***************************************************************************)
(* Containers.  A stream has a native index, a media type and a codec; a   *)
(* packet belongs to a stream and decodes to zero or more frames; a frame  *)
(* is a sequence of stereo samples <<l, r>>.  The "fault" fields say which *)
(* library call fails on that packet or frame.                             *)
(***************************************************************************)
RegisteredCodecs == {"aac", "mp3", "h264"}

Stream(i, media, codec) ==
  [index |-> i, media |-> media, codec |-> codec, lang |-> "",
   params |-> "ok", opens |-> TRUE, eos |-> "ok", swrFlush |-> "ok"]

Frame(d) == [data |-> d, fault |-> "none"]
Packet(s, fs) == [stream |-> s, frames |-> fs, fault |-> "none"]

NoContainer == [opens |-> FALSE, info |-> FALSE, streams |-> <<>>, packets |-> <<>>]

Movie ==
  [opens |-> TRUE, info |-> TRUE,
   streams |-> << Stream(0, "video", "prores"),
                  [Stream(1, "audio", "aac") EXCEPT !.lang = "eng"],
                  Stream(2, "audio", "truehd"),
                  [Stream(3, "audio", "mp3") EXCEPT !.swrFlush = "eof"] >>,
   packets |-> << Packet(0, <<>>),
                  Packet(1, << Frame(<< <<2, 4>> >>) >>),
                  Packet(3, << Frame(<< <<4, 4>>, <<0, 2>> >>) >>),
                  Packet(1, << Frame(<< <<1, 1>>, <<3, 3>> >>), Frame(<< <<4, 0>> >>) >>),
                  Packet(0, <<>>),
                  Packet(1, <<>>),
                  Packet(1, << Frame(<< <<2, 2>> >>) >>) >>]

Silent ==
  [opens |-> TRUE, info |-> TRUE,
   streams |-> << Stream(0, "audio", "aac"),
                  [Stream(1, "audio", "mp3") EXCEPT !.swrFlush = "eof"],
                  [Stream(2, "audio", "aac") EXCEPT !.eos = "eof"],
                  Stream(3, "audio", "mp3") >>,
   packets |-> << Packet(1, <<>>),
                  Packet(2, << Frame(<<>>) >>),
                  Packet(2, << Frame(<<>>), Frame(<<>>) >>),
                  Packet(3, << Frame(<<>>) >>) >>]

VideoOnly ==
  [opens |-> TRUE, info |-> TRUE,
   streams |-> << Stream(0, "video", "h264"), Stream(2, "subtitle", "srt") >>,
   packets |-> << Packet(0, <<>>), Packet(2, <<>>) >>]

NoStreams == [opens |-> TRUE, info |-> TRUE, streams |-> <<>>, packets |-> <<>>]

\* every audio stream of this container fails somewhere after setup
Broken ==
  [opens |-> TRUE, info |-> TRUE,
   streams |-> << Stream(0, "audio", "aac"), Stream(1, "audio", "aac"),
                  Stream(2, "audio", "mp3"), Stream(3, "audio", "mp3") >>,
   packets |-> << Packet(0, << Frame(<< <<1, 3>>, <<2, 2>>, <<4, 4>> >>), Frame(<< <<0, 0>> >>) >>),
                  Packet(1, << Frame(<< <<3, 3>>, <<1, 1>> >>), Frame(<< <<2, 0>> >>) >>),
                  Packet(2, << Frame(<< <<4, 2>>, <<2, 2>> >>), Frame(<< <<1, 1>> >>) >>),
                  Packet(3, << Frame(<< <<2, 2>>, <<0, 4>> >>), Frame(<< <<3, 1>> >>) >>),
                  [Packet(0, <<>>) EXCEPT !.fault = "send"],
                  [Packet(1, <<>>) EXCEPT !.fault = "receive"],
                  Packet(2, << [Frame(<< <<1, 1>> >>) EXCEPT !.fault = "convert"] >>),
                  Packet(3, << [Frame(<< <<3, 3>>, <<1, 3>> >>) EXCEPT !.fault = "copy"] >>),
                  Packet(1, << Frame(<< <<0, 2>> >>), Frame(<< <<2, 2>> >>), Frame(<<>>) >>),
                  Packet(2, << Frame(<< <<0, 2>> >>), Frame(<< <<2, 2>> >>), Frame(<<>>) >>),
                  Packet(3, << Frame(<< <<0, 2>> >>), Frame(<< <<2, 2>> >>), Frame(<<>>) >>) >>]

\* the failures of the two flush phases
BrokenTail ==
  [opens |-> TRUE, info |-> TRUE,
   streams |-> << [Stream(0, "audio", "aac") EXCEPT !.eos = "error"],
                  [Stream(1, "audio", "aac") EXCEPT !.swrFlush = "error"],
                  [Stream(2, "audio", "mp3") EXCEPT !.swrFlush = "copy"],
                  Stream(3, "audio", "mp3") >>,
   packets |-> << Packet(0, << Frame(<< <<1, 3>>, <<2, 2>> >>) >>),
                  Packet(1, << Frame(<< <<3, 3>>, <<1, 1>> >>) >>),
                  Packet(2, << Frame(<< <<4, 2>>, <<2, 2>>, <<1, 1>> >>) >>),
                  Packet(3, << Frame(<< <<2, 2>>, <<0, 4>> >>) >>),
                  Packet(3, << [Frame(<< <<3, 1>> >>) EXCEPT !.fault = "receive"] >>) >>]

BrokenTail2 ==
  [opens |-> TRUE, info |-> TRUE,
   streams |-> << Stream(0, "audio", "aac"), Stream(1, "audio", "aac"),
                  [Stream(2, "audio", "aac") EXCEPT !.params = "bad"],
                  [Stream(3, "audio", "mp3") EXCEPT !.opens = FALSE] >>,
   packets |-> << Packet(0, << Frame(<< <<1, 3>>, <<2, 2>> >>) >>),
                  Packet(1, << Frame(<< <<3, 3>>, <<1, 1>> >>) >>),
                  Packet(0, << [Frame(<< <<3, 1>> >>) EXCEPT !.fault = "convert"] >>),
                  Packet(1, << [Frame(<< <<3, 1>>, <<2, 2>> >>) EXCEPT !.fault = "copy"] >>) >>]

\* sources that are not stereo: one channel, and three channels
Surround ==
  [opens |-> TRUE, info |-> TRUE,
   streams |-> << Stream(0, "audio", "mp3"), Stream(1, "audio", "aac") >>,
   packets |-> << Packet(0, << Frame(<< <<4>>, <<2>>, <<1>> >>) >>),
                  Packet(1, << Frame(<< <<3, 3, 0>>, <<1, 1, 1>> >>) >>),
                  Packet(0, << Frame(<< <<3>> >>) >>) >>]

\* the container cannot be read past its second packet
Truncated ==
  [opens |-> TRUE, info |-> TRUE,
   streams |-> << Stream(0, "audio", "aac") >>,
   packets |-> << Packet(0, << Frame(<< <<1, 3>>, <<2, 2>> >>) >>),
                  Packet(0, << Frame(<< <<3, 3>>, <<1, 1>> >>) >>),
                  [Packet(0, <<>>) EXCEPT !.fault = "read"] >>]

Paths ==
  {"missing.mp4", "garbled.mkv", "movie.mkv", "silent.wav", "video.mp4",
   "empty.mkv", "broken.mp4", "tail.mp4", "tail2.mp4", "truncated.mp4", "surround.wav"}

Container(path) ==
  CASE path = "garbled.mkv" -> [NoContainer EXCEPT !.opens = TRUE]
    [] path = "movie.mkv" -> Movie
    [] path = "silent.wav" -> Silent
    [] path = "video.mp4" -> VideoOnly
    [] path = "empty.mkv" -> NoStreams
    [] path = "broken.mp4" -> Broken
    [] path = "tail.mp4" -> BrokenTail
    [] path = "tail2.mp4" -> BrokenTail2
    [] path = "truncated.mp4" -> Truncated
    [] path = "surround.wav" -> Surround
    [] OTHER -> NoContainer

StreamsOf(path) == Container(path).streams
PacketsOf(path) == Container(path).packets

(***************************************************************************)
(* Library objects.  A handle names one object of its kind; the world is   *)
(* the three tables of objects.                                            *)
(***************************************************************************)
NoSession == [live |-> FALSE, owner |-> 0, path |-> "", opened |-> FALSE, pos |-> 0]
NoDecoder ==
  [live |-> FALSE, owner |-> 0, opened |-> FALSE, held |-> <<>>, ready |-> <<>>,
   draining |-> FALSE]
NoResampler == [live |-> FALSE, owner |-> 0, buf |-> <<>>]

EmptyWorld ==
  [ses |-> [h \in Handles |-> NoSession],
   dec |-> [h \in Handles |-> NoDecoder],
   swr |-> [h \in Handles |-> NoResampler]]

NoStream == Stream(-1, "none", "none")
NoSrcFrame == [live |-> FALSE, data |-> <<>>, fault |-> "none"]
NoDstFrame ==
  [live |-> FALSE, nb |-> 0, data |-> <<>>, fault |-> "none",
   rate |-> 0, format |-> "none", layout |-> "none"]
NoPacket == [live |-> FALSE, ref |-> FALSE, stream |-> -1, frames |-> <<>>, fault |-> "none"]

Min(S) == CHOOSE x \in S : \A y \in S : x <= y

\* astiav.Alloc*: a new object, distinct from every live one
\* (faulty variant: one object shared by every caller)
AllocHandleShared(objs) == 1
AllocHandle(objs) ==
  LET free == {h \in Handles : ~objs[h].live}
  IN IF free = {} THEN Min(Handles) ELSE Min(free)

\* fc.ReadFrame(pkt): the next packet of the container, ErrEof after the last
ReadFrame(s) ==
  LET pkts == PacketsOf(s.path)
  IN IF s.pos >= Len(pkts)
       THEN [res |-> "eof", pkt |-> NoPacket, ses |-> s]
       ELSE LET pk == pkts[s.pos + 1]
            IN IF pk.fault = "read"
                 THEN [res |-> "error", pkt |-> NoPacket, ses |-> s]
                 ELSE [res |-> "ok",
                       pkt |-> [live |-> TRUE, ref |-> TRUE, stream |-> pk.stream,
                                frames |-> pk.frames, fault |-> pk.fault],
                       ses |-> [s EXCEPT !.pos = @ + 1]]

\* the decoder releases a frame once more than DecoderDelay frames are held
RECURSIVE Settle(_)
Settle(d) ==
  IF Len(d.held) > DecoderDelay
    THEN Settle([d EXCEPT !.held = Tail(@), !.ready = Append(@, Head(d.held))])
    ELSE d

\* cc.SendPacket(pkt)
SendPacket(d, pkt) ==
  IF pkt.fault = "send" \/ d.draining
    THEN [res |-> "error", dec |-> d]
    ELSE LET decoded == IF pkt.fault = "receive"
                          THEN << [data |-> <<>>, fault |-> "receive"] >>
                          ELSE pkt.frames
         IN [res |-> "ok", dec |-> Settle([d EXCEPT !.held = @ \o decoded])]

\* cc.SendPacket(nil): end of stream, the frames kept back become available
SendEndOfStream(d, stream) ==
  IF stream.eos = "error"
    THEN [res |-> "error", dec |-> d]
    ELSE [res |-> IF stream.eos = "eof" THEN "eof" ELSE "ok",
          dec |-> [d EXCEPT !.draining = TRUE, !.held = <<>>, !.ready = @ \o d.held]]

\* cc.ReceiveFrame(srcFrame)
ReceiveFrame(d) ==
  IF d.ready # <<>>
    THEN IF Head(d.ready).fault = "receive"
           THEN [res |-> "error", frame |-> NoSrcFrame, dec |-> [d EXCEPT !.ready = Tail(@)]]
           ELSE [res |-> "ok",
                 frame |-> [live |-> TRUE, data |-> Head(d.ready).data,
                            fault |-> Head(d.ready).fault],
                 dec |-> [d EXCEPT !.ready = Tail(@)]]
    ELSE [res |-> IF d.draining THEN "eof" ELSE "eagain", frame |-> NoSrcFrame, dec |-> d]

\* any number of channels to mono: the mean of the channels of each sample
RECURSIVE Total(_)
Total(chs) == IF chs = <<>> THEN 0 ELSE Head(chs) + Total(Tail(chs))
Downmix(data) == [i \in 1..Len(data) |-> Total(data[i]) \div Len(data[i])]

\* rate conversion: one output sample for each complete group of RateRatio inputs
Decimate(mono) == [i \in 1..(Len(mono) \div RateRatio) |-> mono[(i - 1) * RateRatio + 1]]
Remainder(mono) == SubSeq(mono, (Len(mono) \div RateRatio) * RateRatio + 1, Len(mono))

\* swrCtx.ConvertFrame(src, dst) with a decoded frame
ConvertFrame(r, src, dst) ==
  IF src.fault = "convert"
    THEN [res |-> "error", swr |-> r, dst |-> dst]
    ELSE LET all == r.buf \o Downmix(src.data)
         IN [res |-> "ok",
             swr |-> [r EXCEPT !.buf = Remainder(all)],
             dst |-> [dst EXCEPT !.nb = Len(Decimate(all)), !.data = Decimate(all),
                                 !.fault = IF src.fault = "copy" THEN "copy" ELSE "none"]]

\* swrCtx.ConvertFrame(nil, dst): the buffered remainder, padded to a group
ConvertFlush(r, stream, dst) ==
  IF stream.swrFlush = "error"
    THEN [res |-> "error", swr |-> r, dst |-> dst]
    ELSE IF stream.swrFlush = "eof" /\ r.buf = <<>>
      THEN [res |-> "eof", swr |-> r, dst |-> dst]
      ELSE LET out == IF r.buf = <<>> THEN <<>> ELSE << r.buf[1] >>
           IN [res |-> "ok",
               swr |-> [r EXCEPT !.buf = <<>>],
               dst |-> [dst EXCEPT !.nb = Len(out), !.data = out,
                                   !.fault = IF stream.swrFlush = "copy" THEN "copy"
                                             ELSE "none"]]

\* A slice element is a sample value; an element that would lie in the sample
\* memory of a frame is written as the address of its cell, FrameMemory + k.
FrameMemory == 1000

\* extractFloat32Samples(frame)
\* (faulty variant: the slice returned is a view of the frame's sample memory)
extractFloat32SamplesView(frame) ==
  IF frame.nb = 0
    THEN [floats |-> <<>>, err |-> NoError]
    ELSE IF frame.fault = "copy"
      THEN [floats |-> <<>>, err |-> "copying samples to buffer"]
      ELSE [floats |-> [k \in 1..frame.nb |-> FrameMemory + k], err |-> NoError]
extractFloat32Samples(frame) ==
  IF frame.nb = 0
    THEN [floats |-> <<>>, err |-> NoError]
    ELSE IF frame.fault = "copy"
      THEN [floats |-> <<>>, err |-> "copying samples to buffer"]
      ELSE LET bufSize == frame.nb * BytesPerSample
               nFloats == bufSize \div BytesPerSample
           IN [floats |-> SubSeq(frame.data, 1, nFloats), err |-> NoError]

(***************************************************************************)
(* The locals of one call.  pc is the statement the call is at; defers is  *)
(* the stack of deferred releases; log records the library calls made and  *)
(* handed the destination frames as they were handed to the resampler.     *)
(* afterFailure and overlapped record how the call was scheduled: whether  *)
(* it began after another call had failed, and whether it began while      *)
(* another call was running.                                               *)
(***************************************************************************)
NoResult == [buf |-> NilSlice, tracks |-> <<>>, err |-> NoError]

IdleCall(id) ==
  [id |-> id, op |-> "none", path |-> "", idx |-> 0, allocFail |-> 0, pc |-> "idle",
   fc |-> NilHandle, cc |-> NilHandle, swr |-> NilHandle, audioStream |-> NoStream,
   srcFrame |-> NoSrcFrame, dstFrame |-> NoDstFrame, pkt |-> NoPacket,
   samples |-> NilSlice, ret |-> NoResult, defers |-> <<>>, log |-> <<>>,
   handed |-> <<>>,
   afterFailure |-> FALSE, overlapped |-> FALSE]

Ev(op, res) == [op |-> op, res |-> res]
Logged(c, op, res) == [c EXCEPT !.log = Append(@, Ev(op, res))]

\* `defer f()`: deferred calls run last-in first-out
\* (faulty variant: first-in first-out)
PushDeferFifo(c, name) == [c EXCEPT !.defers = Append(@, name)]
PushDefer(c, name) == [c EXCEPT !.defers = << name >> \o @]

\* `return nil, fmt.Errorf(...)`
\* (faulty variant: the samples accumulated so far are returned with the error)
ReturnPartial(c, err) ==
  [c EXCEPT !.ret = [buf |-> c.samples, tracks |-> <<>>, err |-> err], !.pc = "unwind"]
ReturnError(c, err) ==
  [c EXCEPT !.ret = [buf |-> NilSlice, tracks |-> <<>>, err |-> err], !.pc = "unwind"]

\* `return samples, nil`
\* (faulty variant: an empty result is reported as an error)
ReturnSamplesNonEmpty(c) ==
  IF c.samples.data = <<>>
    THEN ReturnError(c, "no samples")
    ELSE [c EXCEPT !.ret = [buf |-> c.samples, tracks |-> <<>>, err |-> NoError],
                   !.pc = "unwind"]
ReturnSamples(c) ==
  [c EXCEPT !.ret = [buf |-> c.samples, tracks |-> <<>>, err |-> NoError], !.pc = "unwind"]

Out(c, w) == [c |-> c, w |-> w]

\* fc := astiav.AllocFormatContext(); defer fc.CloseInput()
AllocFormatContext(c, w, next) ==
  IF c.allocFail = 1
    THEN Out(ReturnError(Logged(c, "AllocFormatContext", "nil"), "allocating format context"), w)
    ELSE LET h == AllocHandle(w.ses)
         IN Out(PushDefer([Logged(c, "AllocFormatContext", "ok") EXCEPT !.fc = h, !.pc = next],
                          "fc.CloseInput"),
                [w EXCEPT !.ses[h] = [NoSession EXCEPT !.live = TRUE, !.owner = c.id]])

\* fc.OpenInput(path, nil, nil)
OpenInput(c, w, next) ==
  IF Container(c.path).opens
    THEN Out([Logged(c, "OpenInput", "ok") EXCEPT !.pc = next],
             [w EXCEPT !.ses[c.fc].opened = TRUE, !.ses[c.fc].path = c.path])
    ELSE Out(ReturnError(Logged(c, "OpenInput", "error"), OpenFailure), w)

\* fc.FindStreamInfo(nil)
FindStreamInfo(c, w, next) ==
  IF Container(w.ses[c.fc].path).info
    THEN Out([Logged(c, "FindStreamInfo", "ok") EXCEPT !.pc = next], w)
    ELSE Out(ReturnError(Logged(c, "FindStreamInfo", "error"), ProbeFailure), w)

\* (faulty variant: an index that names no audio stream falls back to the
\* first audio stream of the container)
FindStreamOrFirstAudio(c, w) ==
  LET streams == StreamsOf(w.ses[c.fc].path)
      hits == {i \in 1..Len(streams) : streams[i].index = c.idx /\ streams[i].media = "audio"}
      audio == {i \in 1..Len(streams) : streams[i].media = "audio"}
  IN IF hits # {}
       THEN Out([c EXCEPT !.audioStream = streams[Min(hits)], !.pc = "codec"], w)
       ELSE IF audio = {}
         THEN Out(ReturnError(c, StreamNotFound), w)
         ELSE Out([c EXCEPT !.audioStream = streams[Min(audio)], !.pc = "codec"], w)

\* the stream loop of ExtractAudio and the two checks after it
\* (faulty variant: the index taken as a position in the stream list)
FindStreamByPosition(c, w) ==
  LET streams == StreamsOf(w.ses[c.fc].path)
  IN IF c.idx + 1 \notin 1..Len(streams)
       THEN Out(ReturnError(c, StreamNotFound), w)
       ELSE IF streams[c.idx + 1].media # "audio"
         THEN Out(ReturnError(c, WrongStreamType), w)
         ELSE Out([c EXCEPT !.audioStream = streams[c.idx + 1], !.pc = "codec"], w)
FindStream(c, w) ==
  LET streams == StreamsOf(w.ses[c.fc].path)
      hits == {i \in 1..Len(streams) : streams[i].index = c.idx}
  IN IF hits = {}
       THEN Out(ReturnError(c, StreamNotFound), w)
       ELSE IF streams[Min(hits)].media # "audio"
         THEN Out(ReturnError(c, WrongStreamType), w)
         ELSE Out([c EXCEPT !.audioStream = streams[Min(hits)], !.pc = "codec"], w)

\* astiav.FindDecoder, astiav.AllocCodecContext, defer cc.Free()
SetUpDecoder(c, w) ==
  IF c.audioStream.codec \notin RegisteredCodecs
    THEN Out(ReturnError(Logged(c, "FindDecoder", "nil"), UnsupportedCodec), w)
    ELSE IF c.allocFail = 2
      THEN Out(ReturnError(Logged(c, "AllocCodecContext", "nil"), "allocating codec context"), w)
      ELSE LET h == AllocHandle(w.dec)
           IN Out(PushDefer([Logged(c, "AllocCodecContext", "ok")
                               EXCEPT !.cc = h, !.pc = "params"], "cc.Free"),
                  [w EXCEPT !.dec[h] = [NoDecoder EXCEPT !.live = TRUE, !.owner = c.id]])

\* codecParams.ToCodecContext(cc)
ToCodecContext(c, w) ==
  IF c.audioStream.params = "ok"
    THEN Out([Logged(c, "ToCodecContext", "ok") EXCEPT !.pc = "codec_open"], w)
    ELSE Out(ReturnError(Logged(c, "ToCodecContext", "error"), ParamsFailure), w)

\* cc.Open(codec, nil)
OpenCodec(c, w) ==
  IF c.audioStream.opens
    THEN Out([Logged(c, "Open", "ok") EXCEPT !.pc = "alloc_swr"],
             [w EXCEPT !.dec[c.cc].opened = TRUE])
    ELSE Out(ReturnError(Logged(c, "Open", "error"), CodecOpenFailure), w)

\* swrCtx := astiav.AllocSoftwareResampleContext(); defer swrCtx.Free()
AllocResampler(c, w) ==
  IF c.allocFail = 3
    THEN Out(ReturnError(Logged(c, "AllocSoftwareResampleContext", "nil"),
                         "allocating software resample context"), w)
    ELSE LET h == AllocHandle(w.swr)
         IN Out(PushDefer([Logged(c, "AllocSoftwareResampleContext", "ok")
                             EXCEPT !.swr = h, !.pc = "alloc_frames"], "swrCtx.Free"),
                [w EXCEPT !.swr[h] = [NoResampler EXCEPT !.live = TRUE, !.owner = c.id]])

\* prepareDst(): a clean destination frame in the output format
\* (faulty variant: the format is set again but the frame is not reset)
prepareDstKeep(c) ==
  [c EXCEPT !.dstFrame.live = TRUE, !.dstFrame.rate = DstSampleRate,
            !.dstFrame.format = "flt", !.dstFrame.layout = "mono"]
prepareDst(c) ==
  [c EXCEPT !.dstFrame = [NoDstFrame EXCEPT !.live = TRUE, !.rate = DstSampleRate,
                                            !.format = "flt", !.layout = "mono"]]

\* the two frames and the packet, each with its deferred Free
AllocFramesAndPacket(c, w) ==
  IF c.allocFail = 4
    THEN Out(ReturnError(c, "allocating source frame"), w)
    ELSE LET c1 == PushDefer([c EXCEPT !.srcFrame.live = TRUE], "srcFrame.Free")
         IN IF c.allocFail = 5
              THEN Out(ReturnError(c1, "allocating destination frame"), w)
              ELSE LET c2 == prepareDst(PushDefer([c1 EXCEPT !.dstFrame.live = TRUE],
                                                  "dstFrame.Free"))
                   IN IF c.allocFail = 6
                        THEN Out(ReturnError(c2, "allocating packet"), w)
                        ELSE Out(PushDefer([c2 EXCEPT !.pkt.live = TRUE, !.pc = "read"],
                                           "pkt.Free"), w)

\* resampleAndCollect(src, &samples) with a decoded frame
resampleAndCollect(c, w) ==
  LET c1 == prepareDst(c)
      r == ConvertFrame(w.swr[c.swr], c.srcFrame, c1.dstFrame)
      c2 == [Logged(c1, "ConvertFrame", r.res)
               EXCEPT !.dstFrame = r.dst, !.handed = Append(@, c1.dstFrame)]
      w2 == [w EXCEPT !.swr[c.swr] = r.swr]
  IN IF r.res # "ok"
       THEN [c |-> c2, w |-> w2, err |-> "convert"]
       ELSE IF r.dst.nb = 0
         THEN [c |-> c2, w |-> w2, err |-> NoError]
         ELSE LET x == extractFloat32Samples(r.dst)
              IN IF x.err # NoError
                   THEN [c |-> c2, w |-> w2, err |-> x.err]
                   ELSE [c |-> [c2 EXCEPT !.samples = GoAppend(@, x.floats)],
                         w |-> w2, err |-> NoError]

Unref(pkt) == [NoPacket EXCEPT !.live = pkt.live]
UnrefFrame(f) == [NoSrcFrame EXCEPT !.live = f.live]

\* the container reported end-of-stream: leave the read loop for the decoder flush
\* (faulty variant: the decoder flush is skipped)
AtContainerEofSkipDrain(c) == [c EXCEPT !.pc = "flush_swr"]
AtContainerEof(c) == [c EXCEPT !.pc = "flush_send"]

\* the decoder reported no further output: go on to the resampler flush
\* (faulty variant: the resampler flush is skipped)
AtDecoderDrainedReturn(c) == ReturnSamples(c)
AtDecoderDrained(c) == [c EXCEPT !.pc = "flush_swr"]

\* err := fc.ReadFrame(pkt), and the skip of other streams' packets
\* (faulty variant: every packet read goes on to the decoder)
ReadPacketAny(c, w) ==
  LET r == ReadFrame(w.ses[c.fc])
      c1 == Logged(c, "ReadFrame", r.res)
  IN IF r.res = "eof"
       THEN Out(AtContainerEof(c1), w)
       ELSE IF r.res = "error"
         THEN Out(ReturnError(c1, ReadFailure), w)
         ELSE Out([c1 EXCEPT !.pkt = r.pkt, !.pc = "send"], [w EXCEPT !.ses[c.fc] = r.ses])
ReadPacket(c, w) ==
  LET r == ReadFrame(w.ses[c.fc])
      c1 == Logged(c, "ReadFrame", r.res)
  IN IF r.res = "eof"
       THEN Out(AtContainerEof(c1), w)
       ELSE IF r.res = "error"
         THEN Out(ReturnError(c1, ReadFailure), w)
         ELSE IF r.pkt.stream # c.idx
           THEN Out([c1 EXCEPT !.pkt = Unref(r.pkt)], [w EXCEPT !.ses[c.fc] = r.ses])
           ELSE Out([c1 EXCEPT !.pkt = r.pkt, !.pc = "send"], [w EXCEPT !.ses[c.fc] = r.ses])

\* cc.SendPacket(pkt); pkt.Unref()
SubmitPacket(c, w) ==
  LET r == SendPacket(w.dec[c.cc], c.pkt)
      c1 == [Logged(c, "SendPacket", r.res) EXCEPT !.pkt = Unref(@)]
  IN IF r.res # "ok"
       THEN Out(ReturnError(c1, SendFailure), w)
       ELSE Out([c1 EXCEPT !.pc = "receive"], [w EXCEPT !.dec[c.cc] = r.dec])

\* cc.ReceiveFrame(srcFrame) in the read loop
ReceiveDecoded(c, w) ==
  LET r == ReceiveFrame(w.dec[c.cc])
      c1 == Logged(c, "ReceiveFrame", r.res)
      w1 == [w EXCEPT !.dec[c.cc] = r.dec]
  IN IF r.res \in {"eagain", "eof"}
       THEN Out([c1 EXCEPT !.pc = "read"], w1)
       ELSE IF r.res = "error"
         THEN Out(ReturnError(c1, ReceiveFailure), w1)
         ELSE Out([c1 EXCEPT !.srcFrame = r.frame, !.pc = "resample"], w1)

\* resampleAndCollect(srcFrame, &samples); srcFrame.Unref() in the read loop
\* (faulty variant: after one frame the loop goes on to the next packet)
ResampleDecodedOnce(c, w) ==
  LET r == resampleAndCollect(c, w)
      c1 == [r.c EXCEPT !.srcFrame = UnrefFrame(@)]
  IN IF r.err # NoError
       THEN Out(ReturnError(c1, ConvertFailure), r.w)
       ELSE Out([c1 EXCEPT !.pc = "read"], r.w)
ResampleDecoded(c, w) ==
  LET r == resampleAndCollect(c, w)
      c1 == [r.c EXCEPT !.srcFrame = UnrefFrame(@)]
  IN IF r.err # NoError
       THEN Out(ReturnError(c1, ConvertFailure), r.w)
       ELSE Out([c1 EXCEPT !.pc = "receive"], r.w)

\* cc.SendPacket(nil)
FlushDecoder(c, w) ==
  LET r == SendEndOfStream(w.dec[c.cc], c.audioStream)
      c1 == Logged(c, "SendPacket(nil)", r.res)
  IN IF r.res = "error"
       THEN Out(ReturnError(c1, FlushSendFailure), w)
       ELSE Out([c1 EXCEPT !.pc = "flush_receive"], [w EXCEPT !.dec[c.cc] = r.dec])

\* cc.ReceiveFrame(srcFrame) while draining
ReceiveDrained(c, w) ==
  LET r == ReceiveFrame(w.dec[c.cc])
      c1 == Logged(c, "ReceiveFrame", r.res)
      w1 == [w EXCEPT !.dec[c.cc] = r.dec]
  IN IF r.res \in {"eagain", "eof"}
       THEN Out(AtDecoderDrained(c1), w1)
       ELSE IF r.res = "error"
         THEN Out(ReturnError(c1, FlushReceiveFailure), w1)
         ELSE Out([c1 EXCEPT !.srcFrame = r.frame, !.pc = "flush_resample"], w1)

\* resampleAndCollect(srcFrame, &samples); srcFrame.Unref() while draining
ResampleDrained(c, w) ==
  LET r == resampleAndCollect(c, w)
      c1 == [r.c EXCEPT !.srcFrame = UnrefFrame(@)]
  IN IF r.err # NoError
       THEN Out(ReturnError(c1, FlushConvertFailure), r.w)
       ELSE Out([c1 EXCEPT !.pc = "flush_receive"], r.w)

\* prepareDst(); swrCtx.ConvertFrame(nil, dstFrame); return samples, nil
FlushResampler(c, w) ==
  LET c1 == prepareDst(c)
      r == ConvertFlush(w.swr[c.swr], c.audioStream, c1.dstFrame)
      c2 == [Logged(c1, "ConvertFrame(nil)", r.res)
               EXCEPT !.dstFrame = r.dst, !.handed = Append(@, c1.dstFrame)]
      w2 == [w EXCEPT !.swr[c.swr] = r.swr]
  IN IF r.res = "error"
       THEN Out(ReturnError(c2, FlushResamplerFailure), w2)
       ELSE IF r.res = "eof" \/ r.dst.nb = 0
         THEN Out(ReturnSamples(c2), w2)
         ELSE LET x == extractFloat32Samples(r.dst)
              IN IF x.err # NoError
                   THEN Out(ReturnError(c2, FlushExtractFailure), w2)
                   ELSE Out(ReturnSamples([c2 EXCEPT !.samples = GoAppend(@, x.floats)]), w2)

IsAudio(st) == st.media = "audio"

\* (faulty variant: a track is numbered by its place among the audio streams)
AudioTracksByPosition(streams) ==
  [k \in 1..Len(SelectSeq(streams, IsAudio)) |->
     [StreamIndex |-> k - 1,
      Language |-> SelectSeq(streams, IsAudio)[k].lang,
      Codec |-> SelectSeq(streams, IsAudio)[k].codec]]

\* the track loop of ProbeAudioTracks: one AudioTrack for each audio stream
RECURSIVE AudioTracks(_)
AudioTracks(streams) ==
  IF streams = <<>>
    THEN <<>>
    ELSE LET st == Head(streams)
         IN (IF st.media # "audio"
               THEN <<>>
               ELSE << [StreamIndex |-> st.index, Language |-> st.lang, Codec |-> st.codec] >>)
            \o AudioTracks(Tail(streams))

\* (faulty variant: a container without audio is reported as an error)
ProbeStreamsOrFail(c, w) ==
  IF AudioTracks(StreamsOf(w.ses[c.fc].path)) = <<>>
    THEN Out(ReturnError(c, "no audio streams"), w)
    ELSE Out([c EXCEPT !.ret = [buf |-> NilSlice,
                                tracks |-> AudioTracks(StreamsOf(w.ses[c.fc].path)),
                                err |-> NoError],
                       !.pc = "unwind"], w)

ProbeStreams(c, w) ==
  Out([c EXCEPT !.ret = [buf |-> NilSlice,
                         tracks |-> AudioTracks(StreamsOf(w.ses[c.fc].path)),
                         err |-> NoError],
                !.pc = "unwind"], w)

\* what each deferred call releases
\* (faulty variant: the session is marked closed but keeps its state)
CloseInputStale(s) == [s EXCEPT !.live = FALSE]
\* (faulty variant: the session is left open)
CloseInputLeak(s) == s

CloseInput(s) == NoSession

\* (faulty variant: the decoder is never freed)
FreeCodecContextLeak(d) == d
FreeCodecContext(d) == NoDecoder

FreeResampler(r) == NoResampler

\* the function returns: the deferred calls run from the top of the stack
RunDeferred(c, w) ==
  IF c.defers = <<>>
    THEN Out([c EXCEPT !.pc = "done"], w)
    ELSE LET d == Head(c.defers)
             c1 == [Logged(c, d, "released") EXCEPT !.defers = Tail(@)]
         IN CASE d = "pkt.Free" -> Out([c1 EXCEPT !.pkt = NoPacket], w)
              [] d = "dstFrame.Free" -> Out([c1 EXCEPT !.dstFrame = NoDstFrame], w)
              [] d = "srcFrame.Free" -> Out([c1 EXCEPT !.srcFrame = NoSrcFrame], w)
              [] d = "swrCtx.Free" ->
                   Out(c1, [w EXCEPT !.swr[c.swr] = FreeResampler(@)])
              [] d = "cc.Free" ->
                   Out(c1, [w EXCEPT !.dec[c.cc] = FreeCodecContext(@)])
              [] d = "fc.CloseInput" ->
                   Out(c1, [w EXCEPT !.ses[c.fc] = CloseInput(@)])

\* one statement of a call
Step(c, w) ==
  CASE c.pc = "alloc_fc" -> AllocFormatContext(c, w, "open")
    [] c.pc = "open" -> OpenInput(c, w, "info")
    [] c.pc = "info" -> FindStreamInfo(c, w, "find")
    [] c.pc = "find" -> FindStream(c, w)
    [] c.pc = "codec" -> SetUpDecoder(c, w)
    [] c.pc = "params" -> ToCodecContext(c, w)
    [] c.pc = "codec_open" -> OpenCodec(c, w)
    [] c.pc = "alloc_swr" -> AllocResampler(c, w)
    [] c.pc = "alloc_frames" -> AllocFramesAndPacket(c, w)
    [] c.pc = "read" -> ReadPacket(c, w)
    [] c.pc = "send" -> SubmitPacket(c, w)
    [] c.pc = "receive" -> ReceiveDecoded(c, w)
    [] c.pc = "resample" -> ResampleDecoded(c, w)
    [] c.pc = "flush_send" -> FlushDecoder(c, w)
    [] c.pc = "flush_receive" -> ReceiveDrained(c, w)
    [] c.pc = "flush_resample" -> ResampleDrained(c, w)
    [] c.pc = "flush_swr" -> FlushResampler(c, w)
    [] c.pc = "probe_alloc" -> AllocFormatContext(c, w, "probe_open")
    [] c.pc = "probe_open" -> OpenInput(c, w, "probe_info")
    [] c.pc = "probe_info" -> FindStreamInfo(c, w, "probe_streams")
    [] c.pc = "probe_streams" -> ProbeStreams(c, w)
    [] c.pc = "unwind" -> RunDeferred(c, w)
    [] OTHER -> Out(c, w)

\* a call is made: ExtractAudio(path, idx) or ProbeAudioTracks(path)
Started(c, op, path, idx, allocFail) ==
  [c EXCEPT !.op = op, !.path = path, !.idx = idx, !.allocFail = allocFail,
            !.pc = IF op = "probe" THEN "probe_alloc" ELSE "alloc_fc"]

\* the result of the call when nothing else runs
RECURSIVE Run(_, _)
RunFrom(o) == IF o.c.pc = "done" THEN o.c.ret ELSE Run(o.c, o.w)
Run(c, w) == RunFrom(Step(c, w))

RunAlone(op, path, idx, allocFail) ==
  Run(Started(IdleCall(1), op, path, idx, allocFail), EmptyWorld)

(***************************************************************************)
(* The state.                                                              *)
(***************************************************************************)
\* the locals of PickAudioTracks and TrackLanguage before a call
IdleSel ==
  [ pc |-> "idle", op |-> "none", manual |-> 0 - 1, streamIndex |-> 0,
    menuLines |-> 0, rbuf |-> <<>>, reads |-> 0, line |-> <<>>,
    typed |-> <<>>, indices |-> NilSlice, err |-> NoError, lang |-> "" ]

\* no WhisperModel loaded yet; native[h] is the state of native context h
NoModel ==
  [ loaded |-> FALSE, ctx |-> 0, native |-> <<>>, frees |-> <<>>, misuse |-> FALSE,
    progressCallbacks |-> {}, progressNextID |-> 0, inferences |-> 0, reported |-> 0,
    ops |-> 0, trail |-> <<>>,
    last |-> [op |-> "none", err |-> NoError, out |-> <<>>, args |-> <<>>] ]

\* the names a cache directory may hold in the model
CacheNames ==
  {"ggml-tiny.bin", "ggml-tiny.bin.tmp", "ggml-large-v3.bin", "ggml-large-v3.bin.tmp", "notes.txt"}

\* no call of EnsureModel yet; files[n] is the content of n or "absent"
IdleEnsure ==
  [ pc |-> "idle", name |-> "", fname |-> "", url |-> "", dir |-> FALSE,
    files |-> [n \in CacheNames |-> "absent"], attempt |-> 0, tried |-> <<>>,
    stderr |-> <<>>, given |-> [n \in CacheNames |-> "absent"],
    ret |-> [path |-> "", err |-> NoError, cause |-> NoError] ]

\* the zero time.Time a new reporter's lastUpdate holds: far before any reading
\* of the clock, which is in milliseconds
ZeroTime == 0 - 100000

\* no ProgressReporter yet; clock is the monotonic clock of the process
NoReporter ==
  [ made |-> FALSE, clock |-> 0, startTime |-> ZeroTime, lastUpdate |-> ZeroTime,
    w |-> <<>>, updates |-> 0 ]

\* no call of FindMediaFiles yet
IdleFind == [pc |-> "idle", paths |-> <<>>, i |-> 0, found |-> <<>>, stderr |-> <<>>]

\* no call of FormatTimestamp yet; a time.Duration is its whole milliseconds
\* and the nanoseconds beyond them
IdleFormat == [pc |-> "idle", d |-> [ms |-> 0, ns |-> 0], srt |-> <<>>, vtt |-> <<>>]

\* the threads that use the progress-callback registry
Threads == {1, 2}

\* a thread that is in no call; found is what its lookup in the registry gave
IdleThread ==
  [ pc |-> "idle", op |-> "none", fn |-> "", id |-> 0,
    found |-> [ok |-> FALSE, fn |-> ""], cbID |-> 0, reports |-> 0, err |-> NoError ]

\* whisper.go 26-31: the lock (0 when free, else the thread holding it), the
\* map as a set of entries, the id counter; handed and invoked record the ids
\* returned by registerProgress and the functions goProgressCallback ran
IdleRegistry ==
  [ progressMu |-> 0, progressCallbacks |-> {}, progressNextID |-> 0,
    th |-> [t \in Threads |-> IdleThread],
    handed |-> <<>>, invoked |-> <<>>, calls |-> 0 ]

\* the processes that call EnsureModel for one and the same model
Procs == {1, 2}

\* a process in no call: out is the file its descriptor is open on, off the
\* offset of that descriptor, created whether os.Create succeeded in this
\* attempt (the deferred cleanup is registered), dlErr the error of the attempt
IdleProc ==
  [ pc |-> "idle", attempt |-> 0, out |-> 0, off |-> 0, created |-> FALSE,
    dlErr |-> NoError, ret |-> [path |-> "", err |-> NoError, cause |-> NoError] ]

\* the cache directory: dest and tmp are the files the two names refer to (0
\* when the name does not exist), files[k] is the content of file k in
\* blocks, 0 for a block never written
IdleDownloads ==
  [ arranged |-> FALSE, dest |-> 0, tmp |-> 0, files |-> <<>>,
    procs |-> [p \in Procs |-> IdleProc], renamed |-> <<>> ]
IdleSignals ==
  [main |-> "idle", ptr |-> FALSE, path |-> "", seen |-> {}, files |-> {},
   notify |-> FALSE, ch |-> <<>>, done |-> FALSE, h |-> "none",
   removed |-> <<>>, stderr |-> <<>>, exit |-> <<>>, sent |-> 0, writes |-> 0]

VARIABLES
  call,         \* the locals of each call
  sessions,     \* format contexts, by handle
  decoders,     \* codec contexts, by handle
  resamplers,   \* software resample contexts, by handle
  sel,          \* the locals of a call of PickAudioTracks or TrackLanguage
  selTracks,    \* the caller's tracks slice that call was given
  stdin,        \* the lines not yet read from standard input
  stdout,       \* what has been printed
  wm,           \* a WhisperModel, the native contexts and the progress callbacks
  em,           \* a call of EnsureModel and the files of the cache directory
  pr,           \* a ProgressReporter, the clock and what it rendered
  fm,           \* a call of FindMediaFiles
  ts,           \* a call of FormatTimestamp
  rg,           \* the progress-callback registry and the threads that use it
  dl,           \* EnsureModel calls running at once and the files they share
  sg            \* SignalCleanup: the handler goroutine, the signals, the file

audioVars == << call, sessions, decoders, resamplers >>
trackVars == << sel, selTracks, stdin, stdout >>
toolVars == << wm, em, pr, fm, ts >>
concVars == << rg, dl, sg >>
vars == << audioVars, trackVars, toolVars, concVars >>

World == [ses |-> sessions, dec |-> decoders, swr |-> resamplers]

Init ==
  /\ call = [p \in CallIds |-> IdleCall(p)]
  /\ sessions = EmptyWorld.ses
  /\ decoders = EmptyWorld.dec
  /\ resamplers = EmptyWorld.swr
  /\ sel = IdleSel
  /\ wm = NoModel
  /\ em = IdleEnsure
  /\ pr = NoReporter
  /\ fm = IdleFind
  /\ ts = IdleFormat
  /\ rg = IdleRegistry
  /\ dl = IdleDownloads
  /\ sg = IdleSignals
  /\ selTracks = <<>>
  /\ stdin = <<>>
  /\ stdout = <<>>

\* allocation sites of ExtractAudio that may return nil (0: none does)
AllocSites == 0..6
ExtractIndexes == (0 - 1)..MaxStreamIndex

\* the state after a statement of call p that leaves the call and the world as o
Apply(p, o) ==
  /\ call' = [call EXCEPT ![p] = o.c]
  /\ sessions' = o.w.ses
  /\ decoders' = o.w.dec
  /\ resamplers' = o.w.swr
  /\ UNCHANGED << trackVars, toolVars, concVars >>

\* call p executes its next statement
Advance(p) == Apply(p, Step(call[p], World))

Running(q) == call[q].pc \notin {"idle", "done"}
Failed(q) == call[q].op = "extract" /\ call[q].pc = "done" /\ call[q].ret.err # NoError

\* how the call that p begins now is scheduled with respect to the other calls
Scheduled(p, c) ==
  [c EXCEPT !.afterFailure = \E q \in CallIds \ {p} : Failed(q),
            !.overlapped = \E q \in CallIds \ {p} : Running(q)]

CallExtractAudio(p) ==
  /\ call[p].pc = "idle"
  /\ \E path \in Paths, idx \in ExtractIndexes, allocFail \in AllocSites :
       call' = [call EXCEPT ![p] = Scheduled(p, Started(@, "extract", path, idx, allocFail))]
  /\ UNCHANGED << sessions, decoders, resamplers, trackVars, toolVars, concVars >>

CallProbeAudioTracks(p) ==
  /\ call[p].pc = "idle"
  /\ \E path \in Paths, allocFail \in 0..1 :
       call' = [call EXCEPT ![p] = Scheduled(p, Started(@, "probe", path, 0, allocFail))]
  /\ UNCHANGED << sessions, decoders, resamplers, trackVars, toolVars, concVars >>

\* the calls of the concurrent runs
ConcurrentPaths == {"missing.mp4", "movie.mkv", "truncated.mp4"}

GoExtractAudio(p) ==
  /\ call[p].pc = "idle"
  /\ \E path \in ConcurrentPaths, idx \in ExtractIndexes :
       call' = [call EXCEPT ![p] = Scheduled(p, Started(@, "extract", path, idx, 0))]
  /\ UNCHANGED << sessions, decoders, resamplers, trackVars, toolVars, concVars >>

GoProbeAudioTracks(p) ==
  /\ call[p].pc = "idle"
  /\ \E path \in ConcurrentPaths :
       call' = [call EXCEPT ![p] = Scheduled(p, Started(@, "probe", path, 0, 0))]
  /\ UNCHANGED << sessions, decoders, resamplers, trackVars, toolVars, concVars >>

OpenContainer(p) ==
  /\ call[p].pc \in {"alloc_fc", "open", "info", "probe_alloc", "probe_open", "probe_info"}
  /\ Advance(p)

LocateStream(p) ==
  /\ call[p].pc \in {"find"}
  /\ Advance(p)

CreateDecoder(p) ==
  /\ call[p].pc \in {"codec", "params", "codec_open"}
  /\ Advance(p)

CreateResampler(p) ==
  /\ call[p].pc \in {"alloc_swr", "alloc_frames"}
  /\ Advance(p)

ReadLoop(p) ==
  /\ call[p].pc \in {"read", "send"}
  /\ Advance(p)

DecodeLoop(p) ==
  /\ call[p].pc \in {"receive", "resample"}
  /\ Advance(p)

DecoderFlush(p) ==
  /\ call[p].pc \in {"flush_send", "flush_receive", "flush_resample"}
  /\ Advance(p)

ResamplerFlush(p) ==
  /\ call[p].pc \in {"flush_swr"}
  /\ Advance(p)

ListTracks(p) ==
  /\ call[p].pc \in {"probe_streams"}
  /\ Advance(p)

Return(p) ==
  /\ call[p].pc \in {"unwind"}
  /\ Advance(p)

CallSteps(p) ==
  \/ OpenContainer(p)
  \/ LocateStream(p)
  \/ CreateDecoder(p)
  \/ CreateResampler(p)
  \/ ReadLoop(p)
  \/ DecodeLoop(p)
  \/ DecoderFlush(p)
  \/ ResamplerFlush(p)
  \/ ListTracks(p)
  \/ Return(p)

\* one call at a time
Next ==
  \/ CallExtractAudio(1)
  \/ CallProbeAudioTracks(1)
  \/ CallSteps(1)

Spec == Init /\ [][Next]_vars

\* calls on separate goroutines, their statements interleaved
NextConcurrent ==
  \E p \in CallIds :
    \/ GoExtractAudio(p)
    \/ GoProbeAudioTracks(p)
    \/ CallSteps(p)

SpecConcurrent == Init /\ [][NextConcurrent]_vars

(***************************************************************************)
(* Properties of ExtractAudio.                                             *)
(***************************************************************************)
LogOf(p) == call[p].log
Returned(p) == call[p].pc = "done"
Extracting(p) == call[p].op = "extract"
Has(lg, op) == \E i \in 1..Len(lg) : lg[i].op = op
Pending(p, d) == \E i \in 1..Len(call[p].defers) : call[p].defers[i] = d

MainLoopOps == {"ReadFrame", "SendPacket"}
DecodeOps == {"ReceiveFrame", "ConvertFrame"}

\* C1: the three phases of ExtractAudio are strictly ordered.  End-of-stream
\* is signalled to the decoder only right after the container reported
\* end-of-stream, and no packet is read or submitted after it; the resampler
\* is flushed only after that signal, right after the decoder reported no
\* further output, and after that flush nothing is read, submitted, received
\* or resampled.
C1_PhasesOrdered ==
  \A p \in CallIds :
    LET lg == LogOf(p)
    IN \A i \in 1..Len(lg) :
         /\ lg[i].op = "SendPacket(nil)" =>
              /\ i > 1 /\ lg[i - 1] = Ev("ReadFrame", "eof")
              /\ \A j \in (i + 1)..Len(lg) :
                   lg[j].op \notin MainLoopOps \cup {"SendPacket(nil)"}
         /\ lg[i].op = "ConvertFrame(nil)" =>
              /\ i > 1 /\ lg[i - 1].op = "ReceiveFrame" /\ lg[i - 1].res \in {"eof", "eagain"}
              /\ \E j \in 1..(i - 1) : lg[j].op = "SendPacket(nil)"
              /\ \A j \in (i + 1)..Len(lg) :
                   lg[j].op \notin MainLoopOps \cup DecodeOps
                                   \cup {"SendPacket(nil)", "ConvertFrame(nil)"}
         /\ lg[i] = Ev("ReadFrame", "eof") /\ i < Len(lg) => lg[i + 1].op = "SendPacket(nil)"

\* a call that read packets, drained a frame during the decoder flush and
\* flushed the resampler
C1_Witness ==
  \E p \in CallIds :
    LET lg == LogOf(p)
    IN /\ Returned(p)
       /\ \E i, j, k \in 1..Len(lg) :
            /\ i < j /\ j < k
            /\ lg[i].op = "SendPacket(nil)"
            /\ lg[j] = Ev("ConvertFrame", "ok")
            /\ lg[k].op = "ConvertFrame(nil)"
       /\ \E i, j \in 1..Len(lg) : i < j /\ lg[i] = Ev("ReadFrame", "ok") /\ lg[j] = lg[i]

\* the samples of a stream: the mono signal of all its frames in container
\* order, one output sample per group of RateRatio, the last group padded
RECURSIVE FramesData(_)
FramesData(frames) ==
  IF frames = <<>> THEN <<>> ELSE Downmix(Head(frames).data) \o FramesData(Tail(frames))

RECURSIVE StreamSignal(_, _)
StreamSignal(pkts, idx) ==
  IF pkts = <<>>
    THEN <<>>
    ELSE (IF Head(pkts).stream = idx THEN FramesData(Head(pkts).frames) ELSE <<>>)
         \o StreamSignal(Tail(pkts), idx)

StreamSamples(path, idx) ==
  LET mono == StreamSignal(PacketsOf(path), idx)
  IN Decimate(mono) \o (IF Remainder(mono) = <<>> THEN <<>> ELSE << Remainder(mono)[1] >>)

\* C2: when ExtractAudio returns successfully both flushes were performed,
\* neither the decoder nor the resampler still holds output, and the buffer
\* returned holds every sample of the stream, the remainders buffered in the
\* decoder and in the resampler at container end-of-stream included.
C2_NothingLost ==
  \A p \in CallIds :
    (Extracting(p) /\ call[p].pc \in {"unwind", "done"} /\ call[p].ret.err = NoError) =>
      /\ Has(LogOf(p), "SendPacket(nil)")
      /\ Has(LogOf(p), "ConvertFrame(nil)")
      /\ Pending(p, "cc.Free") =>
           decoders[call[p].cc].held = <<>> /\ decoders[call[p].cc].ready = <<>>
      /\ Pending(p, "swrCtx.Free") => resamplers[call[p].swr].buf = <<>>
      /\ call[p].ret.buf.data = StreamSamples(call[p].path, call[p].idx)

\* C2 is reached by a call whose last samples came out of the two flushes
C2_Witness ==
  \E p \in CallIds :
    LET lg == LogOf(p)
    IN /\ Extracting(p) /\ Returned(p) /\ call[p].ret.err = NoError
       /\ Len(call[p].ret.buf.data) >= 2
       /\ \E i, j \in 1..Len(lg) :
            i < j /\ lg[i].op = "SendPacket(nil)" /\ lg[j] = Ev("ConvertFrame", "ok")
       /\ Remainder(StreamSignal(PacketsOf(call[p].path), call[p].idx)) # <<>>

\* C3: when ExtractAudio returns an error the buffer it returns is nil,
\* whatever had been accumulated; a non-nil buffer comes with a nil error.
C3_NoPartialBuffer ==
  \A p \in CallIds :
    (Extracting(p) /\ call[p].pc \in {"unwind", "done"}) =>
      /\ call[p].ret.err # NoError => call[p].ret.buf = NilSlice
      /\ ~call[p].ret.buf.nil => call[p].ret.err = NoError

\* an error return after samples had been accumulated
C3_Witness ==
  \E p \in CallIds :
    /\ Extracting(p) /\ Returned(p)
    /\ call[p].ret.err \in {SendFailure, ReceiveFailure, ConvertFailure, ReadFailure,
                            FlushExtractFailure, FlushResamplerFailure}
    /\ call[p].samples.data # <<>>

\* the deferred releases in the order of the claim: packet and frames,
\* decoder, resampler, container session
RankAsClaimed(d) ==
  CASE d \in {"pkt.Free", "dstFrame.Free", "srcFrame.Free"} -> 1
    [] d = "cc.Free" -> 2
    [] d = "swrCtx.Free" -> 3
    [] d = "fc.CloseInput" -> 4
    [] OTHER -> 0

\* the order the deferred calls give: packet and frames, resampler, decoder,
\* container session
RankReleased(d) ==
  CASE d \in {"pkt.Free", "dstFrame.Free", "srcFrame.Free"} -> 1
    [] d = "swrCtx.Free" -> 2
    [] d = "cc.Free" -> 3
    [] d = "fc.CloseInput" -> 4
    [] OTHER -> 0

ReleasesOf(p) == SelectSeq(LogOf(p), LAMBDA e : e.res = "released")

\* C4 as stated: on every exit path the resources created are released in the
\* order packet and frames, decoder, resampler, container session.
C4_ReleaseOrderAsClaimed ==
  \A p \in CallIds :
    LET rs == ReleasesOf(p)
    IN \A i, j \in 1..Len(rs) : i < j => RankAsClaimed(rs[i].op) <= RankAsClaimed(rs[j].op)

\* C4 amended: on every exit path the resources created are released in the
\* reverse of the order of their creation: the packet, the destination frame
\* and the source frame first, then the resampler, then the decoder, and the
\* container session last.
C4_ReleaseOrder ==
  \A p \in CallIds :
    LET rs == ReleasesOf(p)
    IN /\ \A i, j \in 1..Len(rs) : i < j => RankReleased(rs[i].op) <= RankReleased(rs[j].op)
       /\ \A i, j \in 1..Len(rs) : i # j => rs[i] # rs[j]
       /\ Returned(p) => call[p].defers = <<>>

\* a call that had created everything and released it all
C4_Witness ==
  \E p \in CallIds :
    /\ Extracting(p) /\ Returned(p)
    /\ Len(ReleasesOf(p)) = 6
    /\ call[p].ret.err # NoError

\* the library objects call p holds
SessionsOf(p) == {h \in Handles : sessions[h].live /\ sessions[h].owner = p}
DecodersOf(p) == {h \in Handles : decoders[h].live /\ decoders[h].owner = p}
ResamplersOf(p) == {h \in Handles : resamplers[h].live /\ resamplers[h].owner = p}

\* C5: during a call of ExtractAudio at most one container session, one
\* decoder and one resampler exist, and when the call has returned, on the
\* success path and on every error path, none of them exists any more.
C5_OwnedAndReleased ==
  \A p \in CallIds :
    /\ Cardinality(SessionsOf(p)) <= 1
    /\ Cardinality(DecodersOf(p)) <= 1
    /\ Cardinality(ResamplersOf(p)) <= 1
    /\ call[p].pc \in {"idle", "done"} =>
         /\ SessionsOf(p) = {} /\ DecodersOf(p) = {} /\ ResamplersOf(p) = {}
         /\ ~call[p].srcFrame.live /\ ~call[p].dstFrame.live /\ ~call[p].pkt.live

\* an error between the creation of the decoder and that of the resampler
C5_Witness ==
  \E p \in CallIds :
    /\ Extracting(p) /\ Returned(p)
    /\ call[p].ret.err \in {ParamsFailure, CodecOpenFailure}
    /\ Has(LogOf(p), "cc.Free") /\ ~Has(LogOf(p), "swrCtx.Free")

\* what a call of p returns when it runs alone
AloneResult(p) == RunAlone(call[p].op, call[p].path, call[p].idx, call[p].allocFail)

\* C6: a failed ExtractAudio leaves no state behind: no library object of the
\* failed call remains (with no other call running the world is as it was
\* before the call), and every call begun after the failure, of
\* ProbeAudioTracks or ExtractAudio, on the same or another file, returns what
\* it returns when the failed call never happened.
C6_FailureLeavesNothing ==
  /\ \A q \in CallIds :
       Failed(q) =>
         /\ \A h \in Handles :
              sessions[h].owner # q /\ decoders[h].owner # q /\ resamplers[h].owner # q
         /\ (\A p \in CallIds \ {q} : ~Running(p)) => World = EmptyWorld
  /\ \A p \in CallIds :
       (Returned(p) /\ call[p].afterFailure) => call[p].ret = AloneResult(p)

\* a successful extraction begun after another extraction had failed in the
\* middle of its read loop
C6_Witness ==
  \E p, q \in CallIds :
    /\ p # q /\ Failed(q) /\ call[q].ret.err = ReadFailure
    /\ Returned(p) /\ call[p].afterFailure /\ Extracting(p)
    /\ call[p].ret.err = NoError /\ call[p].ret.buf.data # <<>>

\* C7: concurrent calls of ExtractAudio or ProbeAudioTracks share no state:
\* under every interleaving of their statements each call returns what it
\* returns when run alone.
C7_ConcurrentAsAlone ==
  \A p \in CallIds : Returned(p) => call[p].ret = AloneResult(p)

\* two extractions of the same container that overlapped and both returned
\* samples
C7_Witness ==
  \E p, q \in CallIds :
    /\ p # q /\ Returned(p) /\ Returned(q) /\ call[p].overlapped
    /\ Extracting(p) /\ Extracting(q) /\ call[p].path = call[q].path
    /\ call[p].ret.buf.data # <<>> /\ call[q].ret.buf.data # <<>>

StreamsAt(path, idx) ==
  {i \in 1..Len(StreamsOf(path)) : StreamsOf(path)[i].index = idx}
StreamAt(path, idx) == StreamsOf(path)[Min(StreamsAt(path, idx))]
Resolved(path) == Container(path).opens /\ Container(path).info

SetupFailures == {OpenFailure, StreamNotFound, WrongStreamType, UnsupportedCodec}

\* C9: ExtractAudio fails with OpenFailure when the path cannot be opened;
\* for a container that opens and resolves, with StreamNotFound when no
\* stream has the requested native index, with WrongStreamType when that
\* stream is not audio, and with UnsupportedCodec when no decoder is
\* registered for its codec, in that order; each of these failures is
\* returned before a decoder or a resampler is created and before a packet
\* is read.
C9_SetupFailures ==
  \A p \in CallIds :
    (Extracting(p) /\ call[p].pc \in {"unwind", "done"} /\ call[p].allocFail # 1) =>
      LET path == call[p].path
          idx == call[p].idx
          err == call[p].ret.err
      IN /\ ~Container(path).opens => err = OpenFailure
         /\ (Resolved(path) /\ StreamsAt(path, idx) = {}) => err = StreamNotFound
         /\ (Resolved(path) /\ StreamsAt(path, idx) # {}
               /\ StreamAt(path, idx).media # "audio") => err = WrongStreamType
         /\ (Resolved(path) /\ StreamsAt(path, idx) # {}
               /\ StreamAt(path, idx).media = "audio"
               /\ StreamAt(path, idx).codec \notin RegisteredCodecs) => err = UnsupportedCodec
         /\ err \in SetupFailures =>
              /\ call[p].cc = NilHandle /\ call[p].swr = NilHandle
              /\ ~Has(LogOf(p), "AllocCodecContext")
              /\ ~Has(LogOf(p), "AllocSoftwareResampleContext")
              /\ ~Has(LogOf(p), "ReadFrame")

\* a stream that is neither audio nor decodable is reported as not audio
C9_Witness ==
  \E p \in CallIds :
    /\ Extracting(p) /\ Returned(p)
    /\ call[p].ret.err = WrongStreamType
    /\ StreamAt(call[p].path, call[p].idx).codec \notin RegisteredCodecs

\* a stream on which no library call fails
CleanStream(path, idx) ==
  /\ Resolved(path)
  /\ StreamsAt(path, idx) # {}
  /\ LET st == StreamAt(path, idx)
     IN /\ st.media = "audio" /\ st.codec \in RegisteredCodecs
        /\ st.params = "ok" /\ st.opens /\ st.eos # "error" /\ st.swrFlush # "error"
  /\ \A i \in 1..Len(PacketsOf(path)) :
       LET pk == PacketsOf(path)[i]
       IN /\ pk.fault # "read"
          /\ pk.stream = idx =>
               /\ pk.fault = "none"
               /\ \A k \in 1..Len(pk.frames) : pk.frames[k].fault = "none"

\* C10: when the selected stream yields no samples at all (it has no packets,
\* or every resample call and the flush yield zero samples) ExtractAudio
\* completes the three phases and returns an empty buffer with a nil error.
C10_EmptyIsNotAnError ==
  \A p \in CallIds :
    (/\ Extracting(p) /\ Returned(p) /\ call[p].allocFail = 0
     /\ CleanStream(call[p].path, call[p].idx)
     /\ StreamSamples(call[p].path, call[p].idx) = <<>>)
    => /\ call[p].ret.err = NoError
       /\ call[p].ret.buf.data = <<>>
       /\ \E i \in 1..Len(LogOf(p)) : LogOf(p)[i] = Ev("ReadFrame", "eof")
       /\ Has(LogOf(p), "SendPacket(nil)")
       /\ Has(LogOf(p), "ConvertFrame(nil)")

\* an extraction whose resample calls all yielded zero samples
C10_Witness ==
  \E p \in CallIds :
    /\ Extracting(p) /\ Returned(p) /\ call[p].ret.err = NoError
    /\ StreamSamples(call[p].path, call[p].idx) = <<>>
    /\ Has(LogOf(p), "ConvertFrame")
    /\ Has(LogOf(p), "ConvertFrame(nil)")

\* ---------------------------------------------------------------------------
\* Track selection (src/models.go, PickAudioTracks and TrackLanguage).
\* A line of input is a sequence of one-character strings, so that trimming,
\* case folding and number parsing are computed character by character.
\* ---------------------------------------------------------------------------

MaxLines == 2   \* lines on standard input when the call begins
MaxReads == 3   \* prompts one call is followed through

WhiteSpace == {" ", "\t", "\n"}
DigitChars == {"0", "1", "2", "3", "4", "5", "6", "7", "8", "9"}

RECURSIVE TrimLeft(_)
TrimLeft(s) ==
  IF s # <<>> /\ Head(s) \in WhiteSpace THEN TrimLeft(Tail(s)) ELSE s

RECURSIVE TrimRight(_)
TrimRight(s) ==
  IF s # <<>> /\ s[Len(s)] \in WhiteSpace
  THEN TrimRight(SubSeq(s, 1, Len(s) - 1)) ELSE s

\* (faulty variant: the line is compared as it was read, newline included)
TrimSpaceNot(s) == s

TrimSpace(s) == TrimRight(TrimLeft(s))

ToLower(ch) ==
  CASE ch = "A" -> "a"
    [] ch = "B" -> "b"
    [] ch = "K" -> "k"
    [] ch = "L" -> "l"
    [] ch = "M" -> "m"
    [] ch = "P" -> "p"
    [] ch = "V" -> "v"
    [] OTHER -> ch

\* (faulty variant: the comparison is case sensitive)
EqualFoldExact(s, t) == s = t

EqualFold(s, t) ==
  /\ Len(s) = Len(t)
  /\ \A i \in 1..Len(s) : ToLower(s[i]) = ToLower(t[i])

DigitValue(ch) ==
  CASE ch = "0" -> 0 [] ch = "1" -> 1 [] ch = "2" -> 2 [] ch = "3" -> 3
    [] ch = "4" -> 4 [] ch = "5" -> 5 [] ch = "6" -> 6 [] ch = "7" -> 7
    [] ch = "8" -> 8 [] ch = "9" -> 9

RECURSIVE Decimal(_)
Decimal(ds) ==
  IF ds = <<>> THEN 0
  ELSE 10 * Decimal(SubSeq(ds, 1, Len(ds) - 1)) + DigitValue(ds[Len(ds)])

Unsigned(s) == IF s # <<>> /\ Head(s) \in {"+", "-"} THEN Tail(s) ELSE s

\* strconv.Atoi: an optional sign and at least one decimal digit
Atoi(s) ==
  IF Unsigned(s) = <<>> \/ \E i \in 1..Len(Unsigned(s)) : Unsigned(s)[i] \notin DigitChars
  THEN [n |-> 0, err |-> "invalid syntax"]
  ELSE [n |-> IF Head(s) = "-" THEN 0 - Decimal(Unsigned(s)) ELSE Decimal(Unsigned(s)),
        err |-> NoError]

\* the lines a user may type, each ended by its newline
Lines ==
  { <<"a", "\n">>, <<"A", "L", "l", "\n">>, <<"a", "l", "\n">>,
    <<"b", "a", "d", "\n">>, <<"\n">>,
    <<"0", "\n">>, <<"1", "\n">>, <<" ", "2", "\t", "\n">>, <<"+", "3", "\n">>,
    <<"5", "\n">>, <<"-", "1", "\n">>, <<"1", "a", "\n">> }

\* what standard input holds when the call begins
Inputs == UNION { [1..n -> Lines] : n \in 0..MaxLines }

Track(i, lang) == [StreamIndex |-> i, Language |-> lang, Codec |-> "aac"]

\* the track lists a caller passes: those ProbeAudioTracks returns for the
\* catalogue, and hand-made ones (out of index order, repeated index)
TrackLists ==
  { AudioTracks(StreamsOf(path)) : path \in Paths }
  \cup { << Track(0, "") >>,
         << Track(1, "eng"), Track(2, "") >>,
         << Track(2, "spa"), Track(1, "eng") >>,
         << Track(3, ""), Track(1, "eng"), Track(2, "spa") >>,
         << Track(1, ""), Track(1, "jpn"), Track(2, "eng") >> }

Manuals == (0 - 1)..MaxStreamIndex

NoTracksFound == "no audio tracks found"

Say(text, args) == [text |-> text, args |-> args]

Ints(xs) == [nil |-> FALSE, data |-> xs]

\* the local lang of lines 245-248, 260-263 and 292-295
Shown(lang) == IF lang = "" THEN "und" ELSE lang

RECURSIVE clearLines(_, _)
clearLines(out, n) ==
  IF n <= 0 THEN out ELSE clearLines(Append(out, Say("clear line", <<>>)), n - 1)

\* a step takes and gives s = [sel, tracks, stdin, stdout]
Returns(s, out, indices, err) ==
  [s EXCEPT !.stdout = out,
            !.sel = [@ EXCEPT !.indices = indices, !.err = err, !.pc = "done"]]

PickManual(s) ==
  Returns(s, Append(s.stdout, Say("Using audio track (manual)", <<s.sel.manual>>)),
          Ints(<<s.sel.manual>>), NoError)

\* (faulty variant: an empty list is answered with an empty selection)
PickNoneSilent(s) == Returns(s, s.stdout, Ints(<<>>), NoError)

PickNone(s) == Returns(s, s.stdout, NilSlice, NoTracksFound)

UsingTrack(t) == Say("Using audio track", <<t.StreamIndex, Shown(t.Language)>>)

MenuEntry(tracks, i) ==
  Say("menu entry", <<i, tracks[i].StreamIndex, Shown(tracks[i].Language), tracks[i].Codec>>)

PrintMenu(s) ==
  [s EXCEPT !.stdout = @ \o << Say("Multiple audio tracks found:", <<>>) >>
                         \o [i \in 1..Len(s.tracks) |-> MenuEntry(s.tracks, i)]
                         \o << Say("a) all tracks", <<>>) >>,
            !.sel = [@ EXCEPT !.menuLines = Len(s.tracks) + 2, !.rbuf = <<>>,
                              !.pc = "prompt"]]

\* (faulty variant: the substituted language is stored in the caller's slice)
PickSingleInPlace(s) ==
  Returns([s EXCEPT !.tracks[1].Language = Shown(@)],
          Append(s.stdout, UsingTrack(s.tracks[1])),
          Ints(<<s.tracks[1].StreamIndex>>), NoError)

\* (faulty variant: the menu is shown for a single track too)
PickSingleAsks(s) == PrintMenu(s)

PickSingle(s) ==
  Returns(s, Append(s.stdout, UsingTrack(s.tracks[1])),
          Ints(<<s.tracks[1].StreamIndex>>), NoError)

\* bufio.Reader: an empty buffer is filled by one read of standard input,
\* which hands over the k lines the system has ready
Fill(s, k) ==
  IF s.sel.rbuf # <<>> \/ s.stdin = <<>> THEN s
  ELSE [s EXCEPT !.sel.rbuf = SubSeq(s.stdin, 1, k),
                 !.stdin = SubSeq(s.stdin, k + 1, Len(s.stdin))]

\* ReadString('\n') with its error dropped: at end of input the line is empty
TakeLine(s) ==
  [s EXCEPT !.sel = [@ EXCEPT !.line = IF s.sel.rbuf = <<>> THEN <<>> ELSE Head(s.sel.rbuf),
                              !.rbuf = IF s.sel.rbuf = <<>> THEN <<>> ELSE Tail(s.sel.rbuf),
                              !.typed = Append(@, IF s.sel.rbuf = <<>> THEN <<>> ELSE Head(s.sel.rbuf)),
                              !.reads = @ + 1]]

ReadString(s, k) == TakeLine(Fill(s, k))

Trimmed(s) == [s EXCEPT !.sel.line = TrimSpace(@)]

Prompt(s, k) ==
  Trimmed(ReadString(
    [s EXCEPT !.stdout = Append(@, Say("Select track", <<Len(s.tracks)>>)),
              !.sel.menuLines = @ + 1], k))

\* (faulty variant: only the first track is returned)
ChooseAllFirst(s) ==
  Returns(s, Append(clearLines(s.stdout, s.sel.menuLines), Say("Using all audio tracks", <<>>)),
          Ints(<< s.tracks[1].StreamIndex >>), NoError)

ChooseAll(s) ==
  Returns(s, Append(clearLines(s.stdout, s.sel.menuLines), Say("Using all audio tracks", <<>>)),
          Ints([i \in 1..Len(s.tracks) |-> s.tracks[i].StreamIndex]), NoError)

\* (faulty variant: the number typed is returned as the stream index)
ChooseOneTyped(s, n) ==
  Returns(s, Append(clearLines(s.stdout, s.sel.menuLines), UsingTrack(s.tracks[n])),
          Ints(<< n >>), NoError)

ChooseOne(s, n) ==
  Returns(s, Append(clearLines(s.stdout, s.sel.menuLines), UsingTrack(s.tracks[n])),
          Ints(<< s.tracks[n].StreamIndex >>), NoError)

\* (faulty variant: an invalid line ends the call with an error)
RejectGivesUp(s) ==
  Returns(s, Append(s.stdout, Say("Invalid choice", <<Len(s.tracks)>>)), NilSlice, "invalid choice")

Reject(s) ==
  [s EXCEPT !.stdout = Append(@, Say("Invalid choice", <<Len(s.tracks)>>)),
            !.sel.menuLines = @ + 1]

WantsAll(line) ==
  EqualFold(line, <<"a">>) \/ EqualFold(line, <<"a", "l", "l">>)

InRange(a, len) == a.err = NoError /\ a.n >= 1 /\ a.n <= len

Decide(s) ==
  IF WantsAll(s.sel.line) THEN ChooseAll(s)
  ELSE IF InRange(Atoi(s.sel.line), Len(s.tracks)) THEN ChooseOne(s, Atoi(s.sel.line).n)
  ELSE Reject(s)

\* (faulty variant: the empty list is rejected before the override is looked at)
PickAudioTracksEmptyFirst(s) ==
  IF Len(s.tracks) = 0 THEN PickNone(s)
  ELSE IF s.sel.manual >= 0 THEN PickManual(s)
  ELSE IF Len(s.tracks) = 1 THEN PickSingle(s)
  ELSE PrintMenu(s)

\* lines 234-271: the returns without a question, or the menu
PickAudioTracks(s) ==
  IF s.sel.manual >= 0 THEN PickManual(s)
  ELSE IF Len(s.tracks) = 0 THEN PickNone(s)
  ELSE IF Len(s.tracks) = 1 THEN PickSingle(s)
  ELSE PrintMenu(s)

\* (faulty variant: the last track with the index is the one looked at)
RECURSIVE TrackLanguageLast(_, _)
TrackLanguageLast(tracks, streamIndex) ==
  IF tracks = <<>> THEN "und"
  ELSE IF tracks[Len(tracks)].StreamIndex = streamIndex
       THEN Shown(tracks[Len(tracks)].Language)
       ELSE TrackLanguageLast(SubSeq(tracks, 1, Len(tracks) - 1), streamIndex)

RECURSIVE TrackLanguage(_, _)
TrackLanguage(tracks, streamIndex) ==
  IF tracks = <<>> THEN "und"
  ELSE IF Head(tracks).StreamIndex = streamIndex
       THEN (IF Head(tracks).Language # "" THEN Head(tracks).Language ELSE "und")
       ELSE TrackLanguage(Tail(tracks), streamIndex)

LookUp(s) ==
  [s EXCEPT !.sel = [@ EXCEPT !.lang = TrackLanguage(s.tracks, s.sel.streamIndex),
                              !.pc = "done"]]

\* --- the selector as a state machine ---------------------------------------

SelState == [sel |-> sel, tracks |-> selTracks, stdin |-> stdin, stdout |-> stdout]

ApplySel(o) ==
  /\ sel' = o.sel
  /\ selTracks' = o.tracks
  /\ stdin' = o.stdin
  /\ stdout' = o.stdout
  /\ UNCHANGED << audioVars, toolVars, concVars >>

\* the caller invokes PickAudioTracks(tracks, manual) with lines waiting on stdin
CallPickAudioTracks ==
  /\ sel.pc = "idle"
  /\ \E tracks \in TrackLists, manual \in Manuals, in \in Inputs :
       ApplySel([sel |-> [IdleSel EXCEPT !.pc = "entry", !.op = "PickAudioTracks",
                                         !.manual = manual],
                 tracks |-> tracks, stdin |-> in, stdout |-> <<>>])

\* the caller invokes TrackLanguage(tracks, streamIndex)
CallTrackLanguage ==
  /\ sel.pc = "idle"
  /\ \E tracks \in TrackLists, i \in 0..MaxStreamIndex :
       ApplySel([sel |-> [IdleSel EXCEPT !.pc = "entry", !.op = "TrackLanguage",
                                         !.streamIndex = i],
                 tracks |-> tracks, stdin |-> <<>>, stdout |-> <<>>])

Select ==
  /\ sel.pc = "entry" /\ sel.op = "PickAudioTracks"
  /\ ApplySel(PickAudioTracks(SelState))

\* one turn of the loop of lines 272-302: the prompt and the read, then
\* the decision on the line read
Choose ==
  /\ sel.pc = "prompt" /\ sel.reads < MaxReads
  /\ \E k \in 1..(IF stdin = <<>> THEN 1 ELSE Len(stdin)) :
       \E p \in {Prompt(SelState, k)} : \E o \in {Decide(p)} : ApplySel(o)

\* while the call waits at the prompt of a terminal, the user types a line
Type ==
  /\ sel.pc = "prompt" /\ sel.reads < MaxReads
  /\ stdin = <<>> /\ sel.rbuf = <<>>
  /\ \E line \in Lines : stdin' = << line >>
  /\ UNCHANGED << sel, selTracks, stdout, audioVars, toolVars, concVars >>

Language ==
  /\ sel.pc = "entry" /\ sel.op = "TrackLanguage"
  /\ ApplySel(LookUp(SelState))

NextSelect ==
  CallPickAudioTracks \/ CallTrackLanguage \/ Select \/ Type \/ Choose \/ Language

SpecSelect == Init /\ [][NextSelect]_vars

\* ---------------------------------------------------------------------------
\* Properties of PickAudioTracks and TrackLanguage
\* ---------------------------------------------------------------------------

Picking == sel.op = "PickAudioTracks"
Entering == Picking /\ sel.pc = "entry"
Picked == Picking /\ sel.pc = "done"

\* something was printed that asks the user (the menu or the prompt)
Asked(out) ==
  \E i \in 1..Len(out) :
    out[i].text \in {"Multiple audio tracks found:", "menu entry", "a) all tracks", "Select track"}

\* the step returns without a question and without touching standard input
Unasked ==
  /\ sel'.pc = "done"
  /\ sel'.reads = 0 /\ sel'.rbuf = <<>> /\ stdin' = stdin
  /\ ~Asked(stdout')

\* C11: with a manual override K >= 0 PickAudioTracks returns exactly [K] and
\* a nil error for any track list, the empty one included (the override is
\* looked at before the empty list is), and reads no input.
C11_ManualOverride ==
  [][ (Entering /\ sel.manual >= 0)
      => /\ Unasked
         /\ sel'.indices = Ints(<< sel.manual >>)
         /\ sel'.err = NoError ]_vars

\* an override returned for an empty list while input was waiting
C11_Witness ==
  /\ Picked /\ sel.manual >= 0 /\ selTracks = <<>> /\ stdin # <<>>
  /\ sel.indices = Ints(<< sel.manual >>)

\* C12: with an empty track list and no override PickAudioTracks fails with
\* the no-tracks error, returns no indices and prints no prompt.
C12_NoTracks ==
  [][ (Entering /\ sel.manual < 0 /\ selTracks = <<>>)
      => /\ Unasked
         /\ sel'.indices = NilSlice
         /\ sel'.err = NoTracksFound ]_vars

\* the no-tracks error returned while input was waiting
C12_Witness ==
  /\ Picked /\ sel.manual < 0 /\ selTracks = <<>> /\ stdin # <<>>
  /\ sel.err = NoTracksFound

\* C13: with exactly one track and no override PickAudioTracks returns that
\* track's stream index alone, asks nothing and reads no input.
C13_SingleTrack ==
  [][ (Entering /\ sel.manual < 0 /\ Len(selTracks) = 1)
      => /\ Unasked
         /\ sel'.indices = Ints(<< selTracks[1].StreamIndex >>)
         /\ sel'.err = NoError ]_vars

\* the only track returned, its index not its position, while input was waiting
C13_Witness ==
  /\ Picked /\ sel.manual < 0 /\ Len(selTracks) = 1 /\ stdin # <<>>
  /\ selTracks[1].StreamIndex # 1
  /\ sel.indices = Ints(<< selTracks[1].StreamIndex >>)

\* what a line read from standard input says, as a reader of the terminal
\* takes it (a table over Lines and the empty line of end of input)
Meaning(typed) ==
  CASE typed \in { <<"a", "\n">>, <<"A", "L", "l", "\n">> } -> [kind |-> "all", n |-> 0]
    [] typed = <<"0", "\n">> -> [kind |-> "number", n |-> 0]
    [] typed = <<"1", "\n">> -> [kind |-> "number", n |-> 1]
    [] typed = <<" ", "2", "\t", "\n">> -> [kind |-> "number", n |-> 2]
    [] typed = <<"+", "3", "\n">> -> [kind |-> "number", n |-> 3]
    [] typed = <<"5", "\n">> -> [kind |-> "number", n |-> 5]
    [] typed = <<"-", "1", "\n">> -> [kind |-> "number", n |-> 0 - 1]
    [] OTHER -> [kind |-> "text", n |-> 0]

LastTyped == Meaning(sel.typed[Len(sel.typed)])

Distinct(tracks) ==
  \A i, j \in 1..Len(tracks) : tracks[i].StreamIndex = tracks[j].StreamIndex => i = j

Ascending(xs) == \A i, j \in 1..Len(xs) : i < j => xs[i] < xs[j]

ListedIndexes(tracks) == [i \in 1..Len(tracks) |-> tracks[i].StreamIndex]

AnsweredAll == Picking /\ sel.typed # <<>> /\ LastTyped.kind = "all"

\* C14 as claimed: "a" or "all" returns the stream indices in ascending order
\* for every list of distinct indices.
C14_AllAscendingAsClaimed ==
  (AnsweredAll /\ Distinct(selTracks))
  => /\ Picked /\ sel.err = NoError
     /\ Ascending(sel.indices.data)
     /\ \A t \in 1..Len(selTracks) :
          Cardinality({k \in 1..Len(sel.indices.data) :
                         sel.indices.data[k] = selTracks[t].StreamIndex}) = 1
     /\ Len(sel.indices.data) = Len(selTracks)

\* C14: for two or more tracks and no override, answering the prompt with "a"
\* or "all" in any letter case returns, with a nil error, the stream index of
\* every track in the order the tracks are listed: each once when the indices
\* are distinct, and ascending when the list is in ascending index order.
C14_AllInListedOrder ==
  AnsweredAll
  => /\ Picked /\ sel.err = NoError
     /\ sel.indices = Ints(ListedIndexes(selTracks))
     /\ Distinct(selTracks) =>
          \A t \in 1..Len(selTracks) :
            Cardinality({k \in 1..Len(sel.indices.data) :
                           sel.indices.data[k] = selTracks[t].StreamIndex}) = 1
     /\ Ascending(ListedIndexes(selTracks)) => Ascending(sel.indices.data)

\* "ALl" answered, after a rejected line, for three tracks listed out of order
C14_Witness ==
  /\ Picked /\ Len(sel.typed) = 2
  /\ sel.typed[2] = <<"A", "L", "l", "\n">>
  /\ Len(selTracks) = 3 /\ Distinct(selTracks) /\ ~Ascending(ListedIndexes(selTracks))
  /\ Len(sel.indices.data) = 3

Count(out, text) == Cardinality({i \in 1..Len(out) : out[i].text = text})

\* the line does not choose: text that is no number, or a number out of range
Invalid(m) == m.kind = "text" \/ (m.kind = "number" /\ (m.n < 1 \/ m.n > Len(selTracks)))

Rejected == {i \in 1..Len(sel.typed) : Invalid(Meaning(sel.typed[i]))}

\* C15: with two or more tracks and no override, every invalid line (text that
\* is no number, an ordinal below 1 or above the number of tracks) is answered
\* by an "Invalid choice" message right after its prompt and the call goes on
\* asking; a valid ordinal n after any number of such lines makes the call
\* return [stream index of the n-th listed track] with a nil error.
C15_RetryThenOrdinal ==
  (Picking /\ sel.typed # <<>>)
  => /\ \A i \in 1..(Len(sel.typed) - 1) : i \in Rejected
     /\ Count(stdout, "Invalid choice") = Cardinality(Rejected)
     /\ Count(stdout, "Select track") = Len(sel.typed)
     /\ \A k \in 1..Len(stdout) :
          stdout[k].text = "Invalid choice" => stdout[k - 1].text = "Select track"
     /\ Len(sel.typed) \in Rejected
          => /\ sel.pc = "prompt" /\ sel.indices = NilSlice
             /\ stdout[Len(stdout)].text = "Invalid choice"
     /\ (LastTyped.kind = "number" /\ Len(sel.typed) \notin Rejected)
          => /\ Picked /\ sel.err = NoError
             /\ sel.indices = Ints(<< selTracks[LastTyped.n].StreamIndex >>)

\* two rejected lines, then an ordinal that is not the stream index it selects
C15_Witness ==
  /\ Picked /\ Len(sel.typed) = 3 /\ Cardinality(Rejected) = 2
  /\ LastTyped.kind = "number"
  /\ selTracks[LastTyped.n].StreamIndex # LastTyped.n
  /\ sel.indices = Ints(<< selTracks[LastTyped.n].StreamIndex >>)

\* C16: the "und" shown for an empty language is for display only: no step
\* of PickAudioTracks or TrackLanguage, on any path, changes an element of the
\* caller's tracks list.
C16_TracksUntouched ==
  [][ sel.pc # "idle" => selTracks' = selTracks ]_vars

\* "und" was printed for a track whose stored language is still empty
C16_Witness ==
  /\ Picked /\ sel.manual < 0 /\ Len(selTracks) = 1
  /\ selTracks[1].Language = ""
  /\ stdout = << Say("Using audio track", << selTracks[1].StreamIndex, "und" >>) >>

Looked == sel.op = "TrackLanguage" /\ sel.pc = "done"

Matches == {k \in 1..Len(selTracks) : selTracks[k].StreamIndex = sel.streamIndex}

\* C17: TrackLanguage(tracks, i) returns the Language of the first track whose
\* StreamIndex is i when that language is not empty, and "und" when it is
\* empty or when no track has stream index i.
C17_TrackLanguage ==
  Looked
  => /\ Matches = {} => sel.lang = "und"
     /\ Matches # {} =>
          sel.lang = (IF selTracks[Min(Matches)].Language = "" THEN "und"
                      ELSE selTracks[Min(Matches)].Language)

\* two tracks carry the index asked for; the first one's empty language decides
C17_Witness ==
  /\ Looked /\ Cardinality(Matches) = 2
  /\ selTracks[Min(Matches)].Language = ""
  /\ \E k \in Matches : selTracks[k].Language # ""
  /\ sel.lang = "und"

\* ---------------------------------------------------------------------------
\* Properties of ProbeAudioTracks
\* ---------------------------------------------------------------------------

Probing(p) == call[p].op = "probe"

\* the container of the call opens and its stream information resolves
Resolves(p) ==
  call[p].allocFail = 0 /\ Container(call[p].path).opens /\ Container(call[p].path).info

AudioIndexes(path) ==
  {StreamsOf(path)[k].index : k \in {j \in 1..Len(StreamsOf(path)) : StreamsOf(path)[j].media = "audio"}}

NativeIndexes(path) == [k \in 1..Len(StreamsOf(path)) |-> StreamsOf(path)[k].index]

TracksOf(p) == call[p].ret.tracks

\* C18: ProbeAudioTracks on a container that opens and resolves but has no
\* audio stream (no stream at all, or only streams of other types) returns
\* an empty track list and a nil error.
C18_NoAudioIsNotAnError ==
  \A p \in CallIds :
    (Probing(p) /\ Returned(p) /\ Resolves(p) /\ AudioIndexes(call[p].path) = {})
    => /\ TracksOf(p) = <<>>
       /\ call[p].ret.err = NoError

\* a probe that returned from a container with video and subtitle streams only
C18_Witness ==
  \E p \in CallIds :
    /\ Probing(p) /\ Returned(p) /\ Resolves(p)
    /\ StreamsOf(call[p].path) # <<>> /\ AudioIndexes(call[p].path) = {}
    /\ Has(LogOf(p), "FindStreamInfo")
    /\ TracksOf(p) = <<>> /\ call[p].ret.err = NoError

\* C19: for a container whose streams are enumerated in index order,
\* ProbeAudioTracks returns one track for each audio stream and none for any
\* other stream; a track's StreamIndex is the native index of its stream, each
\* native audio index is there exactly once, and the tracks are in ascending
\* index order.
C19_NativeIndexes ==
  \A p \in CallIds :
    (Probing(p) /\ Returned(p) /\ Resolves(p) /\ Ascending(NativeIndexes(call[p].path)))
    => /\ call[p].ret.err = NoError
       /\ Len(TracksOf(p)) = Cardinality(AudioIndexes(call[p].path))
       /\ \A i \in AudioIndexes(call[p].path) :
            Cardinality({k \in 1..Len(TracksOf(p)) : TracksOf(p)[k].StreamIndex = i}) = 1
       /\ \A k \in 1..Len(TracksOf(p)) : TracksOf(p)[k].StreamIndex \in AudioIndexes(call[p].path)
       /\ Ascending(ListedIndexes(TracksOf(p)))

\* three tracks returned, the first of them for the stream of native index 1
C19_Witness ==
  \E p \in CallIds :
    /\ Probing(p) /\ Returned(p) /\ call[p].ret.err = NoError
    /\ StreamsOf(call[p].path)[1].media # "audio"
    /\ Len(TracksOf(p)) = 3
    /\ TracksOf(p)[1].StreamIndex = 1

\* C20: ProbeAudioTracks closes the container session it created on every
\* exit path: a failure to open (which returns an error and no tracks), a
\* failure to find the stream information, and success. No session of the
\* call is left when it has returned.
C20_ProbeClosesSession ==
  \A p \in CallIds :
    (Probing(p) /\ Returned(p))
    => /\ SessionsOf(p) = {}
       /\ \A h \in Handles : sessions[h] = NoSession
       /\ call[p].defers = <<>>
       /\ Has(LogOf(p), "OpenInput") => LogOf(p)[Len(LogOf(p))] = Ev("fc.CloseInput", "released")
       /\ call[p].ret.err \in {NoError, OpenFailure, ProbeFailure, "allocating format context"}
       /\ call[p].ret.err # NoError => TracksOf(p) = <<>>

\* a probe that failed to find the stream information and closed its session
C20_Witness ==
  \E p \in CallIds :
    /\ Probing(p) /\ Returned(p)
    /\ call[p].ret.err = ProbeFailure
    /\ Has(LogOf(p), "fc.CloseInput")
    /\ SessionsOf(p) = {}

\* ---------------------------------------------------------------------------
\* WhisperModel (src/whisper.go, src/transcribe.go).  The native library is a
\* table of contexts, each "live" or "freed"; a native call that is handed a
\* context which is not live is recorded in misuse.
\* ---------------------------------------------------------------------------

MaxLoads == 2   \* models loaded in one run
MaxOps == 5     \* calls on the model followed in one run

ModelClosed == "whisper model is closed"
NoSamples == "no audio samples provided"
LoadFailure == "failed to load whisper model"
InferenceFailure == "whisper transcription failed"

\* what the native library answers to one call of whisper_full: its return
\* code and the segments it leaves in the context, in centiseconds
Inferences ==
  { [ret |-> 1, segments |-> <<>>],
    [ret |-> 0, segments |-> <<>>],
    [ret |-> 0, segments |-> << [t0 |-> 0, t1 |-> 150], [t0 |-> 150, t1 |-> 420] >>] }

Did(w, op, err, out) ==
  [w EXCEPT !.last = [op |-> op, err |-> err, out |-> out, args |-> <<>>],
            !.trail = Append(@, op), !.ops = @ + 1]

\* the arguments of the call, kept with its result
Given(w, samples, onProgress) ==
  [w EXCEPT !.last.args = [samples |-> samples, onProgress |-> onProgress]]

\* a native call that reads context h
Reach(w, h) ==
  IF h # 0 /\ w.native[h] = "live" THEN w ELSE [w EXCEPT !.misuse = TRUE]

\* whisper_free(h): a null pointer is ignored
whisper_free(w, h) ==
  IF h = 0 THEN w
  ELSE [Reach(w, h) EXCEPT !.native[h] = "freed", !.frees[h] = @ + 1]

LoadModel(w, ok) ==
  IF ok
    THEN Did([w EXCEPT !.loaded = TRUE, !.ctx = Len(w.native) + 1,
                       !.native = Append(@, "live"), !.frees = Append(@, 0)],
             "LoadModel", NoError, <<>>)
    ELSE Did(w, "LoadModel", LoadFailure, <<>>)

\* (faulty variant: the pointer is kept after the context is freed)
CloseKeepsPointer(w) ==
  Did(IF w.ctx # 0 THEN whisper_free(w, w.ctx) ELSE w, "Close", NoError, <<>>)

Close(w) ==
  Did(IF w.ctx # 0 THEN [whisper_free(w, w.ctx) EXCEPT !.ctx = 0] ELSE w,
      "Close", NoError, <<>>)

registerProgress(w) ==
  [w EXCEPT !.progressNextID = @ + 1,
            !.progressCallbacks = @ \cup {w.progressNextID + 1}]

unregisterProgress(w, id) == [w EXCEPT !.progressCallbacks = @ \ {id}]

\* goProgressCallback(user_data = id): the function registered under id runs
goProgressCallback(w, id) ==
  IF id \in w.progressCallbacks THEN [w EXCEPT !.reported = @ + 1] ELSE w

\* whisper_full(ctx, params, samples): cbID is 0 when no callback was set
whisper_full(w, cbID) ==
  IF cbID = 0 THEN [Reach(w, w.ctx) EXCEPT !.inferences = @ + 1]
  ELSE goProgressCallback([Reach(w, w.ctx) EXCEPT !.inferences = @ + 1], cbID)

\* lines 139-152: centiseconds to milliseconds
Segments(native) ==
  [i \in 1..Len(native) |-> [Start |-> native[i].t0 * 10, End |-> native[i].t1 * 10]]

\* lines 133-154, with the deferred unregisterProgress
Infer(w, cbID, answer) ==
  IF answer.ret # 0
    THEN Did(unregisterProgress(whisper_full(w, cbID), cbID), "Transcribe",
             InferenceFailure, <<>>)
    ELSE Did(unregisterProgress(whisper_full(w, cbID), cbID), "Transcribe",
             NoError, Segments(answer.segments))

\* (faulty variant: the closed model is not looked for)
TranscribeUnchecked(w, samples, onProgress, answer) ==
  IF Len(samples) = 0 THEN Did(w, "Transcribe", NoSamples, <<>>)
  ELSE IF onProgress THEN Infer(registerProgress(w), w.progressNextID + 1, answer)
  ELSE Infer(w, 0, answer)

Transcribe(w, samples, onProgress, answer) ==
  IF w.ctx = 0 THEN Did(w, "Transcribe", ModelClosed, <<>>)
  ELSE IF Len(samples) = 0 THEN Did(w, "Transcribe", NoSamples, <<>>)
  ELSE IF onProgress THEN Infer(registerProgress(w), w.progressNextID + 1, answer)
  ELSE Infer(w, 0, answer)

\* transcribe.go 13-30: mel and id are the answers of the two native calls
DetectLanguage(w, samples, mel, id) ==
  IF w.ctx = 0 \/ Len(samples) = 0 THEN Did(w, "DetectLanguage", NoError, "")
  ELSE IF mel # 0 THEN Did(Reach(w, w.ctx), "DetectLanguage", NoError, "")
  ELSE IF id < 0 THEN Did(Reach(w, w.ctx), "DetectLanguage", NoError, "")
  ELSE Did(Reach(w, w.ctx), "DetectLanguage", NoError, "en")

IsMultilingual(w) ==
  IF w.ctx = 0 THEN Did(w, "IsMultilingual", NoError, FALSE)
  ELSE Did(Reach(w, w.ctx), "IsMultilingual", NoError, TRUE)

SampleSlices == { <<>>, <<1, 2>> }

ApplyModel(w) ==
  /\ wm' = w
  /\ UNCHANGED << audioVars, trackVars, em, pr, fm, ts, concVars >>

CallLoadModel ==
  /\ wm.ops < MaxOps /\ Len(wm.native) < MaxLoads
  /\ ~wm.loaded \/ wm.ctx = 0
  /\ \E ok \in BOOLEAN : ApplyModel(LoadModel(wm, ok))

CallClose ==
  /\ wm.ops < MaxOps /\ wm.loaded
  /\ ApplyModel(Close(wm))

CallTranscribe ==
  /\ wm.ops < MaxOps /\ wm.loaded
  /\ \E samples \in SampleSlices, onProgress \in BOOLEAN, answer \in Inferences :
       ApplyModel(Given(Transcribe(wm, samples, onProgress, answer), samples, onProgress))

CallDetectLanguage ==
  /\ wm.ops < MaxOps /\ wm.loaded
  /\ \E samples \in SampleSlices, mel \in 0..1, id \in (0 - 1)..0 :
       ApplyModel(Given(DetectLanguage(wm, samples, mel, id), samples, FALSE))

CallIsMultilingual ==
  /\ wm.ops < MaxOps /\ wm.loaded
  /\ ApplyModel(IsMultilingual(wm))

NextWhisper ==
  CallLoadModel \/ CallClose \/ CallTranscribe \/ CallDetectLanguage \/ CallIsMultilingual

SpecWhisper == Init /\ [][NextWhisper]_vars

\* ---------------------------------------------------------------------------
\* Properties of WhisperModel
\* ---------------------------------------------------------------------------

\* this step is a call of op on the model
Calls(op) == wm'.ops = wm.ops + 1 /\ wm'.last.op = op

\* C21: Close may be called any number of times: the native context is freed
\* by the first call only and never twice, and every later call changes
\* nothing and leaves the model closed.
C21_CloseIdempotent ==
  [][ Calls("Close")
      => /\ wm'.ctx = 0
         /\ ~wm'.misuse
         /\ \A h \in 1..Len(wm'.native) : wm'.frees[h] <= 1
         /\ wm.ctx # 0 => /\ wm'.native = [wm.native EXCEPT ![wm.ctx] = "freed"]
                          /\ wm'.frees = [wm.frees EXCEPT ![wm.ctx] = 1]
         /\ wm.ctx = 0 => wm'.native = wm.native /\ wm'.frees = wm.frees ]_vars

\* three calls of Close in a row on one model, its context freed once
C21_Witness ==
  /\ wm.trail = << "LoadModel", "Close", "Close", "Close" >>
  /\ wm.ctx = 0 /\ wm.native = << "freed" >> /\ wm.frees = << 1 >>

\* C22: Transcribe on a closed model, or with an empty sample slice, returns
\* an error, runs no inference and registers no progress callback; and no
\* operation on a closed model reaches the freed native context.
C22_ClosedOrEmpty ==
  [][ /\ (Calls("Transcribe") /\ (wm.ctx = 0 \/ wm'.last.args.samples = <<>>))
         => /\ wm'.last.err # NoError /\ wm'.last.out = <<>>
            /\ wm'.inferences = wm.inferences
            /\ wm'.progressNextID = wm.progressNextID
            /\ wm'.progressCallbacks = wm.progressCallbacks
            /\ wm'.reported = wm.reported
      /\ (wm.loaded /\ wm.ctx = 0 /\ wm'.ops = wm.ops + 1 /\ wm'.last.op # "LoadModel")
         => /\ ~wm'.misuse
            /\ wm'.native = wm.native /\ wm'.frees = wm.frees
            /\ wm'.inferences = wm.inferences ]_vars

\* Transcribe with samples and a callback refused on a model closed before
C22_Witness ==
  /\ wm.last.op = "Transcribe" /\ wm.last.err = ModelClosed
  /\ wm.last.args.samples # <<>> /\ wm.last.args.onProgress
  /\ wm.native = << "freed" >> /\ wm.ctx = 0
  /\ wm.inferences = 0 /\ wm.progressNextID = 0

\* ---------------------------------------------------------------------------
\* EnsureModel (src/models.go 13-184).  The cache directory is a table from
\* file name to content; a download attempt ends in one of Outcomes.
\* ---------------------------------------------------------------------------

modelFiles(name) ==
  CASE name = "tiny" -> "ggml-tiny.bin"
    [] name = "large" -> "ggml-large-v3.bin"
    [] OTHER -> ""

ModelNames == {"tiny", "large", "nonexistent"}

UnknownModel == "unknown model"
MkdirFailure == "creating cache directory"
DownloadFailure == "downloading model"

\* how one call of downloadModel ends: nil, or the step that failed
Outcomes ==
  { "nil", "HTTP request failed", "server returned HTTP", "creating temp file",
    "writing model data", "closing temp file", "moving temp file" }

\* the failures that come after os.Create(tmpPath) succeeded
AfterCreate == {"nil", "writing model data", "closing temp file", "moving temp file"}

EnsureReturns(e, path, err, cause) ==
  [e EXCEPT !.ret = [path |-> path, err |-> err, cause |-> cause], !.pc = "done"]

\* (faulty variant: the file is never found)
StatMissing(e, fname) == "not exist"

\* os.Stat(fpath): nil for whatever is there under the name
Stat(e, fname) == IF e.dir /\ e.files[fname] # "absent" THEN NoError ELSE "not exist"

\* lines 152-183 on the files: the temporary file is created, on success
\* renamed to dest, and removed by the deferred os.Remove otherwise
downloadModel(e, outcome) ==
  IF outcome \notin AfterCreate THEN e
  ELSE IF outcome = "nil"
    THEN [e EXCEPT !.files[e.fname] = "model", !.files[e.fname \o ".tmp"] = "absent"]
    ELSE [e EXCEPT !.files[e.fname \o ".tmp"] = "absent"]

\* lines 82-103
Prepare(e, mkdir) ==
  IF modelFiles(e.name) = "" THEN EnsureReturns(e, "", UnknownModel, NoError)
  ELSE IF Stat(e, modelFiles(e.name)) = NoError
    THEN EnsureReturns([e EXCEPT !.fname = modelFiles(e.name)], modelFiles(e.name), NoError, NoError)
  ELSE IF ~e.dir /\ ~mkdir
    THEN EnsureReturns([e EXCEPT !.fname = modelFiles(e.name)], "", MkdirFailure, NoError)
  ELSE [e EXCEPT !.fname = modelFiles(e.name), !.dir = TRUE,
                 !.url = "https://huggingface.co/ggerganov/whisper.cpp/resolve/main/" \o modelFiles(e.name),
                 !.pc = "download"]

Retrying(e) ==
  IF e.attempt > 0
    THEN [e EXCEPT !.stderr = Append(@, Say("Retrying download", << e.attempt + 1 >>))]
    ELSE e

Attempted(e, outcome) ==
  [downloadModel(e, outcome) EXCEPT !.tried = Append(@, outcome), !.attempt = @ + 1]

\* (faulty variant: the error of the first attempt is the one wrapped)
AfterAttemptFirstError(e, outcome) ==
  IF outcome = "nil" THEN EnsureReturns(e, e.fname, NoError, NoError)
  ELSE IF e.attempt < 2 THEN e
  ELSE EnsureReturns(e, "", DownloadFailure, e.tried[1])

\* lines 112-117, after the attempt was counted
AfterAttempt(e, outcome) ==
  IF outcome = "nil" THEN EnsureReturns(e, e.fname, NoError, NoError)
  ELSE IF e.attempt < 2 THEN e
  ELSE EnsureReturns(e, "", DownloadFailure, outcome)

\* one turn of the loop of lines 107-115
Attempt(e, outcome) == AfterAttempt(Attempted(Retrying(e), outcome), outcome)

CacheContents == {"absent", "model", "stale"}

ApplyEnsure(e) ==
  /\ em' = e
  /\ UNCHANGED << audioVars, trackVars, wm, pr, fm, ts, concVars >>

CallEnsureModel ==
  /\ em.pc = "idle"
  /\ \E name \in ModelNames, dir \in BOOLEAN, files \in [CacheNames -> CacheContents] :
       /\ dir \/ \A n \in CacheNames : files[n] = "absent"
       /\ ApplyEnsure([IdleEnsure EXCEPT !.pc = "prepare", !.name = name, !.dir = dir,
                                         !.files = files, !.given = files])

Locate ==
  /\ em.pc = "prepare"
  /\ \E mkdir \in BOOLEAN : ApplyEnsure(Prepare(em, mkdir))

Download ==
  /\ em.pc = "download"
  /\ \E outcome \in Outcomes : ApplyEnsure(Attempt(em, outcome))

NextEnsure == CallEnsureModel \/ Locate \/ Download

SpecEnsure == Init /\ [][NextEnsure]_vars

\* ---------------------------------------------------------------------------
\* Properties of EnsureModel
\* ---------------------------------------------------------------------------

Cached == em.dir /\ modelFiles(em.name) # "" /\ em.files[modelFiles(em.name)] # "absent"

\* C23: when the model file is already in the cache directory, EnsureModel
\* returns its path without a download attempt and without creating,
\* changing or removing any file.
C23_CachedModel ==
  [][ (em.pc = "prepare" /\ Cached)
      => /\ em'.pc = "done"
         /\ em'.ret = [path |-> modelFiles(em.name), err |-> NoError, cause |-> NoError]
         /\ em'.tried = <<>> /\ em'.attempt = 0
         /\ em'.files = em.files /\ em'.dir = em.dir ]_vars

\* the cached model returned while a leftover temporary file lies beside it
C23_Witness ==
  /\ em.pc = "done" /\ em.name = "tiny" /\ em.ret.path = "ggml-tiny.bin"
  /\ em.given["ggml-tiny.bin"] = "model" /\ em.given["ggml-tiny.bin.tmp"] = "stale"
  /\ em.files = em.given /\ em.tried = <<>>

\* C24: for a missing model EnsureModel makes at most two download attempts,
\* the second only when the first failed; it returns the model path at the
\* first attempt that succeeds and, when both fail, an error that wraps the
\* failure of the second attempt.
C24_RetryOnce ==
  em.tried # <<>>
  => /\ Len(em.tried) <= 2
     /\ em.attempt = Len(em.tried)
     /\ \A i \in 1..(Len(em.tried) - 1) : em.tried[i] # "nil"
     /\ em.pc = "download" => Len(em.tried) = 1 /\ em.tried[1] # "nil"
     /\ (em.pc = "done" /\ em.tried[Len(em.tried)] = "nil")
          => /\ em.ret = [path |-> modelFiles(em.name), err |-> NoError, cause |-> NoError]
             /\ em.files[modelFiles(em.name)] = "model"
     /\ (em.pc = "done" /\ em.tried[Len(em.tried)] # "nil")
          => /\ Len(em.tried) = 2
             /\ em.ret = [path |-> "", err |-> DownloadFailure, cause |-> em.tried[2]]
     /\ em.pc \in {"download", "done"}

\* two attempts that failed differently; the error wraps the second failure
C24_Witness ==
  /\ em.pc = "done"
  /\ em.tried = << "server returned HTTP", "moving temp file" >>
  /\ em.ret.err = DownloadFailure /\ em.ret.cause = "moving temp file"
  /\ em.stderr # <<>>

\* ---------------------------------------------------------------------------
\* ProgressReporter (src/progress.go 14-85).  Times are in milliseconds.
\* ---------------------------------------------------------------------------

MaxClock == 600   \* how far the clock is followed

barWidth == 30
Throttle == 200

\* the steps by which time passes between two calls
Ticks == {100, 199, 200}

Percents == {0 - 1, 0, 40, 100, 101}

\* formatDuration(secs) as its fields: int(secs) split into h, m, s
formatDuration(secs) ==
  IF secs < 60 THEN << secs >>
  ELSE IF secs \div 60 < 60 THEN << secs \div 60, secs % 60 >>
  ELSE << (secs \div 60) \div 60, (secs \div 60) % 60, secs % 60 >>

Clamp(pct) == IF pct < 0 THEN 0 ELSE IF pct > 100 THEN 100 ELSE pct

NewProgressReporter(p) ==
  [p EXCEPT !.made = TRUE, !.startTime = p.clock, !.lastUpdate = ZeroTime,
            !.w = <<>>, !.updates = 0]

\* lines 44-63: the bar written for pct at time now
Render(p, pct, now) ==
  [ at |-> now, pct |-> Clamp(pct), filled |-> (barWidth * Clamp(pct)) \div 100,
    elapsed |-> formatDuration((now - p.startTime) \div 1000),
    eta |-> IF Clamp(pct) > 0 /\ Clamp(pct) < 100
              THEN formatDuration(((now - p.startTime) * (100 - Clamp(pct)))
                                  \div (Clamp(pct) * 1000))
              ELSE <<>> ]

\* (faulty variant: an update that is dropped still restarts the interval)
UpdateRestarts(p, pct) ==
  IF p.clock - p.lastUpdate < Throttle
    THEN [p EXCEPT !.updates = @ + 1, !.lastUpdate = p.clock]
    ELSE [p EXCEPT !.updates = @ + 1, !.lastUpdate = p.clock,
                   !.w = Append(@, Render(p, pct, p.clock))]

\* Update, under the reporter's mutex; now is the clock read at line 38
Update(p, pct) ==
  IF p.clock - p.lastUpdate < Throttle
    THEN [p EXCEPT !.updates = @ + 1]
    ELSE [p EXCEPT !.updates = @ + 1, !.lastUpdate = p.clock,
                   !.w = Append(@, Render(p, pct, p.clock))]

ApplyReporter(p) ==
  /\ pr' = p
  /\ UNCHANGED << audioVars, trackVars, wm, em, fm, ts, concVars >>

Tick ==
  \E d \in Ticks :
    /\ pr.clock + d <= MaxClock
    /\ ApplyReporter([pr EXCEPT !.clock = @ + d])

CallNewProgressReporter ==
  /\ ~pr.made
  /\ ApplyReporter(NewProgressReporter(pr))

CallUpdate ==
  /\ pr.made /\ pr.updates < MaxOps
  /\ \E pct \in Percents : ApplyReporter(Update(pr, pct))

NextReporter == Tick \/ CallNewProgressReporter \/ CallUpdate

SpecReporter == Init /\ [][NextReporter]_vars

\* ---------------------------------------------------------------------------
\* Properties of ProgressReporter
\* ---------------------------------------------------------------------------

Updating == pr'.updates = pr.updates + 1

MaxPaths == 2   \* paths given to one call

MediaExts ==
  { <<".", "m", "p", "4">>, <<".", "m", "k", "v">>, <<".", "a", "v", "i">>,
    <<".", "m", "o", "v">>, <<".", "w", "e", "b", "m">>, <<".", "w", "a", "v">>,
    <<".", "f", "l", "a", "c">>, <<".", "m", "p", "3">> }

Join(dir, name) == dir \o <<"/">> \o name

\* names
Media == <<"m">>
Sub == <<"s">>
Empty == <<"e">>
Locked == <<"k">>
bMkv == <<"b", ".", "m", "k", "v">>
aMP4 == <<"a", ".", "M", "P", "4">>
BMp4 == <<"B", ".", "m", "p", "4">>
cTxt == <<"c", ".", "t", "x", "t">>
lMp4 == <<"l", ".", "m", "p", "4">>
Mp4 == <<"m", "p", "4">>
dMp4 == <<"d", ".", "m", "p", "4">>
tWav == <<"t", ".", "w", "a", "v">>
gMp4 == <<"g", ".", "m", "p", "4">>

File == [kind |-> "regular", target |-> <<>>, entries |-> <<>>, readable |-> TRUE]
Dir(entries) == [kind |-> "dir", target |-> <<>>, entries |-> entries, readable |-> TRUE]
Link(target) == [kind |-> "symlink", target |-> target, entries |-> <<>>, readable |-> TRUE]
Absent == [kind |-> "absent", target |-> <<>>, entries |-> <<>>, readable |-> FALSE]

\* what lies at a path, not following a symbolic link; a directory lists its
\* entries in the order the system hands them out
Node(path) ==
  CASE path = Media -> Dir(<< bMkv, Sub, lMp4, aMP4, cTxt, BMp4, Mp4 >>)
    [] path = Join(Media, bMkv) -> File
    [] path = Join(Media, aMP4) -> File
    [] path = Join(Media, BMp4) -> File
    [] path = Join(Media, cTxt) -> File
    [] path = Join(Media, Mp4) -> File
    [] path = Join(Media, lMp4) -> Link(Join(Media, aMP4))
    [] path = Join(Media, Sub) -> Dir(<< dMp4 >>)
    [] path = Join(Join(Media, Sub), dMp4) -> File
    [] path = Empty -> Dir(<<>>)
    [] path = Locked -> [Dir(<< dMp4 >>) EXCEPT !.readable = FALSE]
    [] path = Join(Locked, dMp4) -> File
    [] path = tWav -> [File EXCEPT !.kind = "device"]
    [] OTHER -> Absent

\* the paths a caller may give
GivenPaths ==
  { Media, Empty, Locked, Join(Media, bMkv), Join(Media, aMP4), Join(Media, cTxt),
    Join(Media, lMp4), Join(Media, Sub), tWav, gMp4 }

\* os.Stat follows a symbolic link
StatNode(path) ==
  IF Node(path).kind = "symlink" THEN Node(Node(path).target) ELSE Node(path)

\* filepath.Ext: from the last dot of the last element of the path
RECURSIVE Ext(_)
Ext(path) ==
  IF path = <<>> \/ path[Len(path)] = "/" THEN <<>>
  ELSE IF Head(path) = "." /\ \A k \in 2..Len(path) : path[k] \notin {".", "/"} THEN path
  ELSE Ext(Tail(path))

Lowered(s) == [k \in 1..Len(s) |-> ToLower(s[k])]

\* (faulty variant: the extension is compared as it is written)
IsMediaExact(path) == Ext(path) \in MediaExts

IsMedia(path) == Lowered(Ext(path)) \in MediaExts

\* the byte of a character, for the order of sort.Strings
Byte(ch) ==
  CASE ch = "." -> 46 [] ch = "/" -> 47 [] ch = "3" -> 51 [] ch = "4" -> 52
    [] ch = "B" -> 66 [] ch = "M" -> 77 [] ch = "P" -> 80
    [] ch = "a" -> 97 [] ch = "b" -> 98 [] ch = "c" -> 99 [] ch = "d" -> 100
    [] ch = "e" -> 101 [] ch = "g" -> 103 [] ch = "k" -> 107 [] ch = "l" -> 108
    [] ch = "m" -> 109 [] ch = "p" -> 112 [] ch = "s" -> 115 [] ch = "t" -> 116
    [] ch = "v" -> 118 [] ch = "w" -> 119 [] ch = "x" -> 120

RECURSIVE Less(_, _)
Less(s, t) ==
  IF t = <<>> THEN FALSE
  ELSE IF s = <<>> THEN TRUE
  ELSE IF Head(s) # Head(t) THEN Byte(Head(s)) < Byte(Head(t))
  ELSE Less(Tail(s), Tail(t))

RECURSIVE Insert(_, _)
Insert(x, sorted) ==
  IF sorted = <<>> THEN << x >>
  ELSE IF Less(x, Head(sorted)) THEN << x >> \o sorted
  ELSE << Head(sorted) >> \o Insert(x, Tail(sorted))

\* (faulty variant: the names are left in listing order)
SortStringsNot(names) == names

RECURSIVE SortStrings(_)
SortStrings(names) ==
  IF names = <<>> THEN <<>> ELSE Insert(Head(names), SortStrings(Tail(names)))

\* lines 220-225: the names of the entries that are regular files themselves
RECURSIVE RegularNames(_, _)
RegularNames(dir, entries) ==
  IF entries = <<>> THEN <<>>
  ELSE (IF Node(Join(dir, Head(entries))).kind = "regular" THEN << Head(entries) >> ELSE <<>>)
       \o RegularNames(dir, Tail(entries))

\* lines 227-231
RECURSIVE MediaIn(_, _)
MediaIn(dir, names) ==
  IF names = <<>> THEN <<>>
  ELSE (IF IsMedia(Head(names)) THEN << Join(dir, Head(names)) >> ELSE <<>>)
       \o MediaIn(dir, Tail(names))

Warned(f, p, why) == [f EXCEPT !.stderr = Append(@, Say("Warning: skipping", << p, why >>))]

Found(f, ps) == [f EXCEPT !.found = @ \o ps]

\* the body of the loop of lines 200-236 for path p
Visit(f, p) ==
  IF StatNode(p).kind = "absent" THEN Warned(f, p, "not a file or directory")
  ELSE IF StatNode(p).kind = "regular"
    THEN (IF IsMedia(p) THEN Found(f, << p >>) ELSE f)
  ELSE IF StatNode(p).kind = "dir"
    THEN (IF ~StatNode(p).readable THEN Warned(f, p, "read error")
          ELSE Found(f, MediaIn(p, SortStrings(RegularNames(p, StatNode(p).entries)))))
  ELSE Warned(f, p, "not a file or directory")

\* one turn of the loop, and the return after the last path
FindMediaFiles(f) ==
  IF f.i > Len(f.paths) THEN [f EXCEPT !.pc = "done"]
  ELSE [Visit(f, f.paths[f.i]) EXCEPT !.i = @ + 1]

PathLists == UNION { [1..n -> GivenPaths] : n \in 0..MaxPaths }

ApplyFind(f) ==
  /\ fm' = f
  /\ UNCHANGED << audioVars, trackVars, wm, em, pr, ts, concVars >>

CallFindMediaFiles ==
  /\ fm.pc = "idle"
  /\ \E paths \in PathLists :
       ApplyFind([IdleFind EXCEPT !.pc = "loop", !.paths = paths, !.i = 1])

Walk ==
  /\ fm.pc = "loop" /\ fm.i <= Len(fm.paths)
  /\ ApplyFind(FindMediaFiles(fm))

ReturnFound ==
  /\ fm.pc = "loop" /\ fm.i > Len(fm.paths)
  /\ ApplyFind(FindMediaFiles(fm))

NextFind == CallFindMediaFiles \/ Walk \/ ReturnFound

SpecFind == Init /\ [][NextFind]_vars

\* ---------------------------------------------------------------------------
\* Properties of FindMediaFiles
\* ---------------------------------------------------------------------------

\* what a reader of the catalogue expects one given path to contribute: the
\* path itself when it leads to a regular media file, the regular media files
\* of a directory by name, nothing otherwise
Expected(p) ==
  CASE p = Media -> << Join(Media, BMp4), Join(Media, aMP4), Join(Media, bMkv) >>
    [] p = Join(Media, Sub) -> << Join(Join(Media, Sub), dMp4) >>
    [] p = Join(Media, bMkv) -> << p >>
    [] p = Join(Media, aMP4) -> << p >>
    [] p = Join(Media, lMp4) -> << p >>
    [] OTHER -> <<>>

RECURSIVE ExpectedOf(_)
ExpectedOf(paths) ==
  IF paths = <<>> THEN <<>> ELSE Expected(Head(paths)) \o ExpectedOf(Tail(paths))

WarnedAbout(p) ==
  \E k \in 1..Len(fm.stderr) :
    fm.stderr[k].text = "Warning: skipping" /\ fm.stderr[k].args[1] = p

\* C26: FindMediaFiles returns exactly the regular files with a recognised
\* media extension, compared without regard to letter case, among the given
\* file paths and the direct entries of the given directories, in the order
\* of the given paths with the entries of a directory sorted by name; a path
\* that does not exist adds nothing and is warned about.
C26_MediaFilesFound ==
  fm.pc \in {"loop", "done"}
  => /\ fm.found = ExpectedOf(SubSeq(fm.paths, 1, fm.i - 1))
     /\ \A k \in 1..(fm.i - 1) : Node(fm.paths[k]).kind = "absent" => WarnedAbout(fm.paths[k])
     /\ fm.pc = "done" => fm.i = Len(fm.paths) + 1

\* a path that does not exist and a directory whose listing is not sorted and
\* holds an upper-case extension
C26_Witness ==
  /\ fm.pc = "done" /\ fm.paths = << gMp4, Media >>
  /\ fm.found = << Join(Media, BMp4), Join(Media, aMP4), Join(Media, bMkv) >>
  /\ Len(fm.stderr) = 1

\* ---------------------------------------------------------------------------
\* FormatTimestamp (src/subtitle.go 17-37).  A timestamp is a sequence of
\* one-character strings.
\* ---------------------------------------------------------------------------

MaxStride == 40   \* durations taken at regular strides, besides the edge ones

DigitChar(n) ==
  CASE n = 0 -> "0" [] n = 1 -> "1" [] n = 2 -> "2" [] n = 3 -> "3" [] n = 4 -> "4"
    [] n = 5 -> "5" [] n = 6 -> "6" [] n = 7 -> "7" [] n = 8 -> "8" [] n = 9 -> "9"

RECURSIVE Digits(_)
Digits(n) == IF n < 10 THEN << DigitChar(n) >> ELSE Append(Digits(n \div 10), DigitChar(n % 10))

\* the verb %0<width>d for n >= 0: at least width digits
RECURSIVE Padded(_, _)
Padded(ds, width) == IF Len(ds) >= width THEN ds ELSE Padded(<< "0" >> \o ds, width)

\* strings.Replace(s, old, new, 1) for one-character old and new
RECURSIVE ReplaceFirst(_, _, _)
ReplaceFirst(s, old, new) ==
  IF s = <<>> THEN <<>>
  ELSE IF Head(s) = old THEN << new >> \o Tail(s)
  ELSE << Head(s) >> \o ReplaceFirst(Tail(s), old, new)

\* (faulty variant: the duration is rounded to the nearest millisecond)
MillisecondsRounded(d) == IF d.ns >= 500000 THEN d.ms + 1 ELSE d.ms

\* d.Milliseconds(): the whole milliseconds of d >= 0
Milliseconds(d) == d.ms

Sprintf(hours, minutes, seconds, ms) ==
  Padded(Digits(hours), 2) \o << ":" >> \o Padded(Digits(minutes), 2) \o << ":" >>
  \o Padded(Digits(seconds), 2) \o << "." >> \o Padded(Digits(ms), 3)

\* lines 24-32 from the whole milliseconds on
Stamp(total) ==
  Sprintf((total \div 1000) \div 3600, ((total \div 1000) % 3600) \div 60,
          ((total \div 1000) % 3600) % 60, total % 1000)

FormatTimestamp(d, format) ==
  IF format = "srt" THEN ReplaceFirst(Stamp(Milliseconds(d)), ".", ",")
  ELSE Stamp(Milliseconds(d))

\* the durations formatted, in milliseconds: the edges of every field, the
\* first duration with three digits of hours, and regular strides
DurationsMs ==
  { 0, 1, 999, 1000, 1500, 59999, 60000, 3599999, 3600000, 39599999, 359999999, 360000000 }
  \cup { k * 7201001 : k \in 1..MaxStride }

ApplyFormat(t) ==
  /\ ts' = t
  /\ UNCHANGED << audioVars, trackVars, wm, em, pr, fm, concVars >>

CallFormatTimestamp ==
  /\ ts.pc = "idle"
  /\ \E ms \in DurationsMs, ns \in {0, 999999} :
       ApplyFormat([IdleFormat EXCEPT !.pc = "called", !.d = [ms |-> ms, ns |-> ns]])

FormatSrt ==
  /\ ts.pc = "called" /\ ts.srt = <<>>
  /\ ApplyFormat([ts EXCEPT !.srt = FormatTimestamp(ts.d, "srt")])

FormatVtt ==
  /\ ts.pc = "called" /\ ts.vtt = <<>>
  /\ ApplyFormat([ts EXCEPT !.vtt = FormatTimestamp(ts.d, "vtt")])

NextFormat == CallFormatTimestamp \/ FormatSrt \/ FormatVtt

SpecFormat == Init /\ [][NextFormat]_vars

\* ---------------------------------------------------------------------------
\* Properties of FormatTimestamp
\* ---------------------------------------------------------------------------

\* the fields read back from a timestamp: the last three characters, the two
\* before the separator, the two before the colon, and all before that
Field(s, from, to) == Decimal(SubSeq(s, from, to))

WellFormed(s, sep) ==
  /\ Len(s) >= 12
  /\ s[Len(s) - 3] = sep /\ s[Len(s) - 6] = ":" /\ s[Len(s) - 9] = ":"
  /\ \A k \in 1..Len(s) : k \notin {Len(s) - 3, Len(s) - 6, Len(s) - 9} => s[k] \in DigitChars

Reads(s, d) ==
  /\ Field(s, 1, Len(s) - 10) * 3600000 + Field(s, Len(s) - 8, Len(s) - 7) * 60000
       + Field(s, Len(s) - 5, Len(s) - 4) * 1000 + Field(s, Len(s) - 2, Len(s)) = d.ms
  /\ Field(s, Len(s) - 8, Len(s) - 7) \in 0..59
  /\ Field(s, Len(s) - 5, Len(s) - 4) \in 0..59
  /\ Field(s, Len(s) - 2, Len(s)) \in 0..999

\* C27: for every duration d >= 0 FormatTimestamp yields hours, minutes,
\* seconds and milliseconds, separated by colons and the separator, with
\* hours*3600000 + minutes*60000 + seconds*1000 + milliseconds equal to d
\* truncated to whole milliseconds, minutes and seconds in 0..59 and
\* milliseconds in 0..999; the separator is a comma for "srt" and a dot for
\* "vtt", and the two outputs for one d differ in nothing else.
C27_TimestampFields ==
  /\ ts.srt # <<>> => WellFormed(ts.srt, ",") /\ Reads(ts.srt, ts.d)
  /\ ts.vtt # <<>> => WellFormed(ts.vtt, ".") /\ Reads(ts.vtt, ts.d)
  /\ (ts.srt # <<>> /\ ts.vtt # <<>>)
       => /\ Len(ts.srt) = Len(ts.vtt)
          /\ \A k \in 1..Len(ts.srt) : k # Len(ts.srt) - 3 => ts.srt[k] = ts.vtt[k]

\* 10h 59m 59.999s and 999999 ns more, formatted both ways
C27_Witness ==
  /\ ts.d = [ms |-> 39599999, ns |-> 999999]
  /\ ts.srt = << "1", "0", ":", "5", "9", ":", "5", "9", ",", "9", "9", "9" >>
  /\ ts.vtt = << "1", "0", ":", "5", "9", ":", "5", "9", ".", "9", "9", "9" >>

\* ---------------------------------------------------------------------------
\* Properties of the decode loop of ExtractAudio (src/audio.go 136-280)
\* ---------------------------------------------------------------------------

MainLoop == {"read", "send", "receive", "resample"}

\* the packets call p has read from its container so far
ReadSoFar(p) == sessions[call[p].fc].pos

\* packets of stream idx among the first n packets
Wanted(pkts, idx, n) == Cardinality({k \in 1..n : pkts[k].stream = idx})

\* packets call p has handed to the decoder
Submitted(p) == Cardinality({i \in 1..Len(LogOf(p)) : LogOf(p)[i].op = "SendPacket"})

\* C28: in the main loop a packet of another stream than the requested one is
\* released and never submitted to the decoder: the packet about to be
\* submitted is the packet last read and belongs to the requested stream, the
\* packets submitted so far are as many as the packets of the requested stream
\* read so far, any other packet is released before the next read, and when
\* the container is exhausted every packet of the requested stream has been
\* submitted once, in container order.
C28_OnlyRequestedStream ==
  \A p \in CallIds :
    Extracting(p) =>
      LET pkts == PacketsOf(call[p].path)
      IN /\ call[p].pc = "send" =>
              /\ ReadSoFar(p) >= 1
              /\ pkts[ReadSoFar(p)].stream = call[p].idx
              /\ call[p].pkt.ref /\ call[p].pkt.stream = call[p].idx
              /\ call[p].pkt.frames = pkts[ReadSoFar(p)].frames
              /\ Submitted(p) = Wanted(pkts, call[p].idx, ReadSoFar(p) - 1)
         /\ call[p].pc \in MainLoop \ {"send"} =>
              /\ ~call[p].pkt.ref
              /\ Submitted(p) = Wanted(pkts, call[p].idx, ReadSoFar(p))
         /\ (\E i \in 1..Len(LogOf(p)) : LogOf(p)[i] = Ev("ReadFrame", "eof")) =>
              Submitted(p) = Wanted(pkts, call[p].idx, Len(pkts))

\* an extraction of stream 1 of the movie that has just skipped the packet of
\* stream 3 after submitting one packet, with more of stream 1 to come
C28_Witness ==
  \E p \in CallIds :
    /\ Extracting(p) /\ call[p].path = "movie.mkv" /\ call[p].idx = 1
    /\ call[p].pc = "read" /\ ReadSoFar(p) = 3
    /\ Submitted(p) = 1 /\ ~call[p].pkt.ref

IsPrefix(s, t) == Len(s) <= Len(t) /\ SubSeq(t, 1, Len(s)) = s

\* the statement just executed by call p was a resample call that succeeded:
\* swrCtx.ConvertFrame with a decoded frame, or with nil to flush
Resampled(p) ==
  /\ Len(call'[p].log) = Len(call[p].log) + 1
  /\ call'[p].log[Len(call'[p].log)] \in {Ev("ConvertFrame", "ok"), Ev("ConvertFrame(nil)", "ok")}

\* C29: the output buffer only grows by appending.  At every statement the
\* previous content is a prefix of the new content; a resample call that
\* yields zero samples leaves the buffer as it is and is no error; a resample
\* call that yields samples appends exactly those (unless reading them out of
\* the frame fails, which ends the call with an error); no other statement
\* changes the buffer; and the buffer returned is the buffer so built, that is
\* the non-empty resampler outputs in the order main loop, decoder flush,
\* resampler flush.
C29_AppendOnly ==
  [][\A p \in CallIds :
       Extracting(p) =>
         /\ IsPrefix(call[p].samples.data, call'[p].samples.data)
         /\ (Resampled(p) /\ call'[p].dstFrame.nb = 0) =>
              /\ call'[p].samples = call[p].samples
              /\ call'[p].ret.err = NoError
         /\ (Resampled(p) /\ call'[p].ret.err = NoError) =>
              call'[p].samples.data = call[p].samples.data \o call'[p].dstFrame.data
         /\ ~Resampled(p) => call'[p].samples = call[p].samples
         /\ (call[p].pc # "unwind" /\ call'[p].pc = "unwind" /\ call'[p].ret.err = NoError) =>
              call'[p].ret.buf = call'[p].samples
         /\ call[p].pc \in {"unwind", "done"} => call'[p].ret = call[p].ret]_vars

\* stream 1 of the movie: the first resample call yields nothing, the next
\* two append one sample each in the main loop, the one of the decoder flush
\* yields nothing, the resampler flush appends the last sample
C29_Witness ==
  \E p \in CallIds :
    /\ Extracting(p) /\ Returned(p) /\ call[p].ret.err = NoError
    /\ call[p].path = "movie.mkv" /\ call[p].idx = 1
    /\ Cardinality({i \in 1..Len(LogOf(p)) : LogOf(p)[i] = Ev("ConvertFrame", "ok")}) = 4
    /\ call[p].ret.buf.data = << 3, 3, 2 >>

\* the element is a value held by the slice itself, not a cell of a frame
Owned(x) == x < FrameMemory

\* what reading the element gives while call p is in state c: its value, or
\* what the destination frame holds in the cell now, or nothing the frame
\* still owns once the frame has been reset or freed
Released == 0 - 1
Read(c, x) ==
  IF Owned(x) THEN x
  ELSE IF c.dstFrame.live /\ x - FrameMemory <= Len(c.dstFrame.data)
    THEN c.dstFrame.data[x - FrameMemory]
    ELSE Released

Stable(c, s, d, t) ==
  \A i \in 1..Len(s) : i <= Len(t) /\ Read(d, t[i]) = Read(c, s[i])

\* C30: the resampled samples are copied out of the destination frame into
\* storage the output buffer owns before the frame is reset or reused.  What
\* a statement appends are the values the destination frame holds at that
\* statement; every element of the buffer and of the returned slice is a
\* value of its own and no cell of a frame; and no later statement (the reset
\* of the frame, its reuse by the next resample call, its release) changes a
\* sample already appended or returned.
C30_SamplesCopiedOut ==
  [][\A p \in CallIds :
       Extracting(p) =>
         /\ \A i \in 1..Len(call'[p].samples.data) : Owned(call'[p].samples.data[i])
         /\ \A i \in 1..Len(call'[p].ret.buf.data) : Owned(call'[p].ret.buf.data[i])
         /\ \A i \in (Len(call[p].samples.data) + 1)..Len(call'[p].samples.data) :
              /\ i - Len(call[p].samples.data) <= Len(call'[p].dstFrame.data)
              /\ call'[p].samples.data[i]
                   = call'[p].dstFrame.data[i - Len(call[p].samples.data)]
         /\ Stable(call[p], call[p].samples.data, call'[p], call'[p].samples.data)
         /\ Stable(call[p], call[p].ret.buf.data, call'[p], call'[p].ret.buf.data)]_vars

\* a call about to finish: it returns samples, the destination frame they
\* were resampled into has been reset, reused and released
C30_Witness ==
  \E p \in CallIds :
    /\ Extracting(p) /\ call[p].pc = "unwind" /\ call[p].ret.err = NoError
    /\ Len(call[p].ret.buf.data) >= 3
    /\ call[p].dstFrame = NoDstFrame
    /\ Cardinality({i \in 1..Len(LogOf(p)) : LogOf(p)[i].op = "ConvertFrame"}) >= 2

\* the destination frame right after prepareDst: no samples, 16000 Hz, one
\* channel, 32-bit float
CleanDst ==
  [live |-> TRUE, nb |-> 0, data |-> <<>>, fault |-> "none",
   rate |-> 16000, format |-> "flt", layout |-> "mono"]

Conversions(p) ==
  Cardinality({i \in 1..Len(LogOf(p)) : LogOf(p)[i].op \in {"ConvertFrame", "ConvertFrame(nil)"}})

\* C31: every conversion by the resampler (of a decoded frame in the main
\* loop, of a frame of the decoder flush, and the final flush) is handed a
\* destination frame that has just been reset and set to 16000 Hz, one
\* channel, 32-bit float, whatever channels the source has.
C31_CleanDestination ==
  \A p \in CallIds :
    Extracting(p) =>
      /\ Len(call[p].handed) = Conversions(p)
      /\ \A i \in 1..Len(call[p].handed) : call[p].handed[i] = CleanDst

\* a three-channel source: a conversion in the main loop that left samples in
\* the destination frame, then the conversion of the final flush
C31_Witness ==
  \E p \in CallIds :
    /\ Extracting(p) /\ Returned(p) /\ call[p].ret.err = NoError
    /\ call[p].path = "surround.wav" /\ call[p].idx = 1
    /\ Len(call[p].handed) = 2
    /\ call[p].ret.buf.data = << 2 >>
    /\ Has(LogOf(p), "ConvertFrame(nil)")

\* the operation call p has just logged, "" when it logged none
JustLogged(p) ==
  IF Len(call'[p].log) = Len(call[p].log) + 1
    THEN call'[p].log[Len(call'[p].log)].op
    ELSE ""

\* C32: in the main loop, after a packet is submitted the decoder is drained
\* until it reports that it needs more input before the next packet is read,
\* and every frame received is resampled at once.  No packet is read or
\* submitted while the decoder has a frame ready; a submission is followed by
\* a receive; a receive takes the frame the decoder has had ready longest and
\* is followed by its conversion; the loop returns to reading only from a
\* receive that found nothing ready.
C32_DrainBeforeNextPacket ==
  [][\A p \in CallIds :
       (Extracting(p) /\ call[p].pc \in MainLoop /\ call'[p] # call[p]) =>
         /\ call[p].pc \in {"read", "send"} => decoders[call[p].cc].ready = <<>>
         /\ call[p].pc = "send" =>
              /\ JustLogged(p) = "SendPacket"
              /\ call'[p].pc \in {"receive", "unwind"}
         /\ call[p].pc = "receive" =>
              /\ JustLogged(p) = "ReceiveFrame"
              /\ call'[p].pc = "read" <=> decoders[call[p].cc].ready = <<>>
              /\ call'[p].pc = "resample" =>
                   /\ call'[p].srcFrame.data = Head(decoders[call[p].cc].ready).data
                   /\ decoders'[call[p].cc].ready = Tail(decoders[call[p].cc].ready)
              /\ call'[p].pc \in {"read", "resample", "unwind"}
         /\ call[p].pc = "resample" =>
              /\ JustLogged(p) = "ConvertFrame"
              /\ decoders'[call[p].cc] = decoders[call[p].cc]
              /\ call'[p].pc \in {"receive", "unwind"}
         /\ call'[p].pc = "read" => call[p].pc \in {"read", "receive"}]_vars

\* a frame is being resampled in the main loop while the decoder has another
\* frame ready, which is received before the next packet is read
C32_Witness ==
  \E p \in CallIds :
    /\ Extracting(p) /\ call[p].pc = "resample"
    /\ call[p].srcFrame.data # <<>>
    /\ decoders[call[p].cc].ready # <<>>

\* ---------------------------------------------------------------------------
\* The progress-callback registry (src/whisper.go 26-58) statement by
\* statement, and Transcribe (94-155) as the thread that uses it.
\* ---------------------------------------------------------------------------

MaxCalls == 3         \* calls of the three functions begun in one run
MaxTranscribes == 2   \* calls of Transcribe begun in one run
MaxReports == 1   \* progress reports of the native library followed in one inference

Fns == {"f", "g"}   \* the functions given as onProgress

\* progressMu.Lock() goes on when the lock is free
\* (faulty variant: it never waits)
NeverWaits(r) == TRUE
Unlocked(r) == r.progressMu = 0

At(r, t, pc) == [r EXCEPT !.th[t].pc = pc]

\* progressMu.Lock()
Lock(r, t) ==
  [r EXCEPT !.progressMu = t,
            !.th[t].pc = CASE r.th[t].pc = "reg_lock" -> "reg_incr"
                           [] r.th[t].pc = "unreg_lock" -> "unreg_delete"
                           [] r.th[t].pc = "cb_lock" -> "cb_lookup"]

\* progressNextID++
Increment(r, t) == At([r EXCEPT !.progressNextID = @ + 1], t, "reg_id")

\* id := progressNextID
TakeId(r, t) == At([r EXCEPT !.th[t].id = r.progressNextID], t, "reg_store")

Without(entries, id) == {e \in entries : e.id # id}

\* progressCallbacks[id] = fn
Store(r, t) ==
  At([r EXCEPT !.progressCallbacks =
                 Without(@, r.th[t].id) \cup {[id |-> r.th[t].id, fn |-> r.th[t].fn]}],
     t, "reg_unlock")

\* delete(progressCallbacks, id)
Delete(r, t) == At([r EXCEPT !.progressCallbacks = Without(@, r.th[t].id)], t, "unreg_unlock")

\* fn, ok := progressCallbacks[id]
Lookup(r, t) ==
  IF \E e \in r.progressCallbacks : e.id = r.th[t].id
    THEN At([r EXCEPT !.th[t].found =
                        [ok |-> TRUE,
                         fn |-> (CHOOSE e \in r.progressCallbacks : e.id = r.th[t].id).fn]],
            t, "cb_unlock")
    ELSE At([r EXCEPT !.th[t].found = [ok |-> FALSE, fn |-> ""]], t, "cb_unlock")

\* the function called returns to its caller: to Transcribe, or the thread is done
ReturnId(r, t) ==
  IF r.th[t].op = "Transcribe"
    THEN [r EXCEPT !.th[t].cbID = r.th[t].id, !.th[t].pc = "full",
                   !.handed = Append(@, [id |-> r.th[t].id, fn |-> r.th[t].fn, t |-> t])]
    ELSE [r EXCEPT !.th[t].pc = "done",
                   !.handed = Append(@, [id |-> r.th[t].id, fn |-> r.th[t].fn, t |-> t])]

Unregistered(r, t) == At(r, t, "done")

Called(r, t) == IF r.th[t].op = "Transcribe" THEN At(r, t, "full") ELSE At(r, t, "done")

\* progressMu.Unlock(), deferred in registerProgress and unregisterProgress,
\* called before fn in goProgressCallback
Unlock(r, t) ==
  CASE r.th[t].pc = "reg_unlock" -> ReturnId([r EXCEPT !.progressMu = 0], t)
    [] r.th[t].pc = "unreg_unlock" -> Unregistered([r EXCEPT !.progressMu = 0], t)
    [] r.th[t].pc = "cb_unlock" -> At([r EXCEPT !.progressMu = 0], t, "cb_invoke")

\* if ok { fn(int(progress)) }
Invoke(r, t) ==
  IF r.th[t].found.ok
    THEN Called([r EXCEPT !.invoked =
                            Append(@, [t |-> t, id |-> r.th[t].id, fn |-> r.th[t].found.fn,
                                       holder |-> r.progressMu])], t)
    ELSE Called(r, t)

\* a thread calls one of the three functions
Begin(r, t, op, fn, id) ==
  [r EXCEPT !.calls = @ + 1,
            !.th[t] = [IdleThread EXCEPT !.op = op, !.fn = fn, !.id = id,
                                         !.pc = CASE op = "registerProgress" -> "reg_lock"
                                                  [] op = "unregisterProgress" -> "unreg_lock"
                                                  [] op = "goProgressCallback" -> "cb_lock"]]

\* Transcribe up to whisper_full (lines 95-130): the two early returns, and
\* the registration of onProgress ("" when it is nil)
BeginTranscribe(r, t, ctx, samples, onProgress) ==
  IF ctx = 0
    THEN [r EXCEPT !.calls = @ + 1,
                   !.th[t] = [IdleThread EXCEPT !.op = "Transcribe", !.pc = "done",
                                                !.err = ModelClosed]]
  ELSE IF Len(samples) = 0
    THEN [r EXCEPT !.calls = @ + 1,
                   !.th[t] = [IdleThread EXCEPT !.op = "Transcribe", !.pc = "done",
                                                !.err = NoSamples]]
  ELSE [r EXCEPT !.calls = @ + 1,
                 !.th[t] = [IdleThread EXCEPT !.op = "Transcribe", !.fn = onProgress,
                                              !.pc = IF onProgress # "" THEN "reg_lock"
                                                     ELSE "full"]]

\* whisper_full reports progress: the callback set with user data cbID
Report(r, t) ==
  [r EXCEPT !.th[t].reports = @ + 1, !.th[t].id = r.th[t].cbID, !.th[t].pc = "cb_lock"]

\* whisper_full has returned ret: Transcribe returns, its deferred
\* unregisterProgress(cbID) runs when a callback was registered
\* (faulty variant: on failure the function returns without unregistering)
AfterInferenceLeak(r, t, ret) ==
  IF ret # 0
    THEN [r EXCEPT !.th[t].err = InferenceFailure, !.th[t].pc = "done"]
    ELSE [r EXCEPT !.th[t].id = r.th[t].cbID,
                   !.th[t].pc = IF r.th[t].cbID # 0 THEN "unreg_lock" ELSE "done"]
AfterInference(r, t, ret) ==
  [r EXCEPT !.th[t].err = IF ret # 0 THEN InferenceFailure ELSE NoError,
            !.th[t].id = r.th[t].cbID,
            !.th[t].pc = IF r.th[t].cbID # 0 THEN "unreg_lock" ELSE "done"]

ApplyRegistry(r) ==
  /\ rg' = r
  /\ UNCHANGED << audioVars, trackVars, toolVars, dl, sg >>

Resting(t) == rg.th[t].pc \in {"idle", "done"}

GoRegisterProgress(t) ==
  /\ Resting(t) /\ rg.calls < MaxCalls
  /\ \E fn \in Fns : ApplyRegistry(Begin(rg, t, "registerProgress", fn, 0))

GoUnregisterProgress(t) ==
  /\ Resting(t) /\ rg.calls < MaxCalls
  /\ \E id \in 1..MaxCalls : ApplyRegistry(Begin(rg, t, "unregisterProgress", "", id))

GoProgressCallback(t) ==
  /\ Resting(t) /\ rg.calls < MaxCalls
  /\ \E id \in 0..MaxCalls : ApplyRegistry(Begin(rg, t, "goProgressCallback", "", id))

Acquire(t) ==
  /\ rg.th[t].pc \in {"reg_lock", "unreg_lock", "cb_lock"}
  /\ Unlocked(rg)
  /\ ApplyRegistry(Lock(rg, t))

Release(t) ==
  /\ rg.th[t].pc \in {"reg_unlock", "unreg_unlock", "cb_unlock"}
  /\ ApplyRegistry(Unlock(rg, t))

Count1(t) == rg.th[t].pc = "reg_incr" /\ ApplyRegistry(Increment(rg, t))
Number(t) == rg.th[t].pc = "reg_id" /\ ApplyRegistry(TakeId(rg, t))
Enter(t) == rg.th[t].pc = "reg_store" /\ ApplyRegistry(Store(rg, t))
Remove(t) == rg.th[t].pc = "unreg_delete" /\ ApplyRegistry(Delete(rg, t))
Find(t) == rg.th[t].pc = "cb_lookup" /\ ApplyRegistry(Lookup(rg, t))
Run1(t) == rg.th[t].pc = "cb_invoke" /\ ApplyRegistry(Invoke(rg, t))

RegistrySteps(t) ==
  \/ Acquire(t) \/ Release(t) \/ Count1(t) \/ Number(t) \/ Enter(t)
  \/ Remove(t) \/ Find(t) \/ Run1(t)

\* the three functions called from any thread at any time
NextRegistry ==
  \E t \in Threads :
    \/ GoRegisterProgress(t) \/ GoUnregisterProgress(t) \/ GoProgressCallback(t)
    \/ RegistrySteps(t)

SpecRegistry == Init /\ [][NextRegistry]_vars

GoTranscribe(t) ==
  /\ Resting(t) /\ rg.calls < MaxTranscribes
  /\ \E ctx \in 0..1, samples \in SampleSlices, onProgress \in {"", "f"} :
       ApplyRegistry(BeginTranscribe(rg, t, ctx, samples, onProgress))

NativeReports(t) ==
  /\ rg.th[t].pc = "full" /\ rg.th[t].reports < MaxReports /\ rg.th[t].cbID # 0
  /\ ApplyRegistry(Report(rg, t))

NativeReturns(t) ==
  /\ rg.th[t].pc = "full"
  /\ \E ret \in 0..1 : ApplyRegistry(AfterInference(rg, t, ret))

\* Transcribe called from any thread at any time
NextTranscribing ==
  \E t \in Threads :
    \/ GoTranscribe(t) \/ NativeReports(t) \/ NativeReturns(t)
    \/ RegistrySteps(t)

SpecTranscribing == Init /\ [][NextTranscribing]_vars

\* ---------------------------------------------------------------------------
\* Properties of the progress-callback registry
\* ---------------------------------------------------------------------------

InProgress(t) == rg.th[t].op = "Transcribe" /\ rg.th[t].pc \notin {"idle", "done"}

\* C33: the registry holds an entry only while the Transcribe call that
\* registered it is in progress.  Every entry is the callback of a call of
\* Transcribe that has not returned; a call that has returned, with or
\* without an error, has left no entry under the id it was given; and when
\* every call has returned the registry is empty.
C33_RegisteredWhileTranscribing ==
  /\ \A e \in rg.progressCallbacks :
       \E t \in Threads : InProgress(t) /\ rg.th[t].id = e.id /\ rg.th[t].fn = e.fn
  /\ \A t \in Threads :
       (rg.th[t].op = "Transcribe" /\ rg.th[t].pc = "done") =>
         \A e \in rg.progressCallbacks : e.id # rg.th[t].cbID
  /\ (\A t \in Threads : ~InProgress(t)) => rg.progressCallbacks = {}

\* two calls with a callback have returned, one after a failed inference and
\* one with success; a callback ran; the registry is empty again
C33_Witness ==
  /\ \A t \in Threads : rg.th[t].op = "Transcribe" /\ rg.th[t].pc = "done" /\ rg.th[t].cbID # 0
  /\ \E t, u \in Threads : rg.th[t].err = InferenceFailure /\ rg.th[u].err = NoError
  /\ Len(rg.handed) = 2 /\ rg.invoked # <<>>
  /\ rg.progressCallbacks = {}

\* the entry registered under id, as a set: empty when there is none
EntryOf(id) == {e \in rg.progressCallbacks : e.id = id}

MaxBlocks == 2   \* blocks of the model file

\* the whole model: block k holds k
Complete == [k \in 1..MaxBlocks |-> k]

ProcAt(d, p, pc) == [d EXCEPT !.procs[p].pc = pc]

\* the attempt ends with err before a temporary file was created
Fails(d, p, err) == [d EXCEPT !.procs[p].dlErr = err, !.procs[p].pc = "attempted"]

\* the attempt returns err after os.Create: the deferred function is pending
Leaves(d, p, err) == [d EXCEPT !.procs[p].dlErr = err, !.procs[p].pc = "cleanup"]

\* lines 82-103 for a known model, the directory being there already
StatDest(d, p) ==
  IF d.dest # 0
    THEN [d EXCEPT !.procs[p].pc = "done",
                   !.procs[p].ret = [path |-> "ggml-tiny.bin", err |-> NoError, cause |-> NoError]]
    ELSE [d EXCEPT !.procs[p].pc = "get", !.procs[p].attempt = 0]

\* http.Get(url) and the status check, lines 123-131
HttpGet(d, p, outcome) ==
  IF outcome = "nil"
    THEN [d EXCEPT !.procs[p].pc = "create", !.procs[p].created = FALSE,
                   !.procs[p].dlErr = NoError]
    ELSE Fails([d EXCEPT !.procs[p].created = FALSE], p, outcome)

\* os.Create(tmpPath): the file under the name is truncated, or a new file
\* is made under the name; the descriptor is at offset 0
OsCreate(d, p, ok) ==
  IF ~ok THEN Fails(d, p, "creating temp file")
  ELSE IF d.tmp # 0
    THEN [d EXCEPT !.files[d.tmp] = <<>>,
                   !.procs[p].out = d.tmp, !.procs[p].off = 0, !.procs[p].created = TRUE,
                   !.procs[p].pc = "copy"]
    ELSE [d EXCEPT !.files = Append(@, <<>>), !.tmp = Len(d.files) + 1,
                   !.procs[p].out = Len(d.files) + 1, !.procs[p].off = 0,
                   !.procs[p].created = TRUE, !.procs[p].pc = "copy"]

\* a write of one block at offset off into a file: what lies between the end
\* of the file and the offset reads as 0
WriteAt(content, off, block) ==
  [k \in 1..(IF off + 1 > Len(content) THEN off + 1 ELSE Len(content)) |->
     IF k = off + 1 THEN block
     ELSE IF k <= Len(content) THEN content[k] ELSE 0]

\* io.Copy(out, reader), one block at a time, lines 169-171
CopyBlock(d, p, ok) ==
  IF ~ok THEN Leaves(d, p, "writing model data")
  ELSE [d EXCEPT !.files[d.procs[p].out] = WriteAt(@, d.procs[p].off, d.procs[p].off + 1),
                 !.procs[p].off = @ + 1,
                 !.procs[p].pc = IF d.procs[p].off + 1 = MaxBlocks THEN "close" ELSE "copy"]

\* out.Close(), lines 173-175
CloseOut(d, p, ok) ==
  IF ok THEN ProcAt(d, p, "rename") ELSE Leaves(d, p, "closing temp file")

\* os.Rename(tmpPath, dest), lines 178-183: fails when the name is gone
OsRename(d, p, ok) ==
  IF ~ok \/ d.tmp = 0 THEN Leaves(d, p, "moving temp file")
  ELSE Leaves([d EXCEPT !.dest = d.tmp, !.tmp = 0,
                        !.renamed = Append(@, [p |-> p, content |-> d.files[d.tmp]])],
              p, NoError)

\* the deferred function, lines 157-160: out.Close(); os.Remove(tmpPath)
\* (faulty variant: the temporary file is not removed)
DeferredCloseOnly(d, p) == [d EXCEPT !.procs[p].out = 0, !.procs[p].pc = "attempted"]
Deferred(d, p) == [d EXCEPT !.tmp = 0, !.procs[p].out = 0, !.procs[p].pc = "attempted"]

\* the loop of EnsureModel, lines 107-117
NextAttempt(d, p) ==
  IF d.procs[p].dlErr = NoError
    THEN [d EXCEPT !.procs[p].pc = "done", !.procs[p].attempt = @ + 1,
                   !.procs[p].ret = [path |-> "ggml-tiny.bin", err |-> NoError, cause |-> NoError]]
  ELSE IF d.procs[p].attempt + 1 < 2
    THEN [d EXCEPT !.procs[p].pc = "get", !.procs[p].attempt = @ + 1]
  ELSE [d EXCEPT !.procs[p].pc = "done", !.procs[p].attempt = @ + 1,
                 !.procs[p].ret = [path |-> "", err |-> DownloadFailure,
                                   cause |-> d.procs[p].dlErr]]

ApplyDownloads(d) ==
  /\ dl' = d
  /\ UNCHANGED << audioVars, trackVars, toolVars, rg, sg >>

\* what the cache directory holds before the first call: nothing, a
\* temporary file left by a process that was killed, or the model
Arrange ==
  /\ ~dl.arranged
  /\ \/ ApplyDownloads([dl EXCEPT !.arranged = TRUE])
     \/ ApplyDownloads([dl EXCEPT !.arranged = TRUE, !.files = << << 1 >> >>, !.tmp = 1])
     \/ ApplyDownloads([dl EXCEPT !.arranged = TRUE, !.files = << Complete >>, !.dest = 1])

Busy(p) == dl.procs[p].pc \notin {"idle", "done"}

\* EnsureModel is called while no other call is running
CallEnsureModelAlone(p) ==
  /\ dl.arranged /\ dl.procs[p].pc = "idle" /\ \A q \in Procs : ~Busy(q)
  /\ ApplyDownloads(ProcAt(dl, p, "stat"))

\* EnsureModel is called at any time
GoEnsureModel(p) ==
  /\ dl.arranged /\ dl.procs[p].pc = "idle"
  /\ ApplyDownloads(ProcAt(dl, p, "stat"))

Look(p) == dl.procs[p].pc = "stat" /\ ApplyDownloads(StatDest(dl, p))

Request(p) ==
  /\ dl.procs[p].pc = "get"
  /\ \E outcome \in {"nil", "HTTP request failed", "server returned HTTP"} :
       ApplyDownloads(HttpGet(dl, p, outcome))

Create(p) ==
  /\ dl.procs[p].pc = "create"
  /\ \E ok \in BOOLEAN : ApplyDownloads(OsCreate(dl, p, ok))

Copy(p) ==
  /\ dl.procs[p].pc = "copy"
  /\ \E ok \in BOOLEAN : ApplyDownloads(CopyBlock(dl, p, ok))

Finish(p) ==
  /\ dl.procs[p].pc = "close"
  /\ \E ok \in BOOLEAN : ApplyDownloads(CloseOut(dl, p, ok))

Move(p) ==
  /\ dl.procs[p].pc = "rename"
  /\ \E ok \in BOOLEAN : ApplyDownloads(OsRename(dl, p, ok))

CleanUp(p) == dl.procs[p].pc = "cleanup" /\ ApplyDownloads(Deferred(dl, p))

Loop(p) == dl.procs[p].pc = "attempted" /\ ApplyDownloads(NextAttempt(dl, p))

DownloadSteps(p) ==
  \/ Look(p) \/ Request(p) \/ Create(p) \/ Copy(p) \/ Finish(p) \/ Move(p)
  \/ CleanUp(p) \/ Loop(p)

\* calls of EnsureModel one after the other
NextDownload == Arrange \/ \E p \in Procs : CallEnsureModelAlone(p) \/ DownloadSteps(p)

SpecDownload == Init /\ [][NextDownload]_vars

\* calls of EnsureModel from processes running at once
NextDownloads == Arrange \/ \E p \in Procs : GoEnsureModel(p) \/ DownloadSteps(p)

SpecDownloads == Init /\ [][NextDownloads]_vars

\* ---------------------------------------------------------------------------
\* Properties of the download
\* ---------------------------------------------------------------------------

FailedAttempt(p) == dl.procs[p].pc = "attempted" /\ dl.procs[p].dlErr # NoError

\* the temporary file a killed process left: as Arrange put it
StaleAsGiven == dl.tmp = 1 /\ dl.files[1] = << 1 >>

\* C35: a download attempt that fails at any step leaves neither the final
\* model file nor the temporary file behind: after it there is no file under
\* the final name, and none under the temporary name once the attempt had
\* created it (an attempt that fails before os.Create touches no file, so a
\* temporary file found there stays as it was).  The final name only ever
\* comes to exist by renaming a completely written temporary file; and when a
\* call has failed and none has succeeded, the next call finds no cached
\* model.
C35_FailedDownloadLeavesNothing ==
  [][/\ \A p \in Procs :
          /\ FailedAttempt(p)' =>
               /\ dl'.dest = 0
               /\ dl'.tmp = 0 \/ (~dl'.procs[p].created /\ StaleAsGiven')
          /\ (/\ dl'.procs[p].pc = "stat"
              /\ \E q \in Procs : dl'.procs[q].pc = "done" /\ dl'.procs[q].ret.err # NoError
              /\ \A q \in Procs : dl'.procs[q].pc = "done" => dl'.procs[q].ret.err # NoError)
               => dl'.dest = 0
     /\ (dl.arranged /\ dl'.dest # dl.dest) =>
          /\ dl.dest = 0 /\ dl.tmp # 0 /\ dl'.dest = dl.tmp /\ dl'.tmp = 0
          /\ dl.files[dl.tmp] = Complete
          /\ \E p \in Procs : dl.procs[p].pc = "rename" /\ dl'.procs[p].pc = "cleanup"]_vars

\* a call that failed twice, the second time when renaming the temporary
\* file it had written completely, has returned; the next call has looked
\* for the model, found none and goes on to download
C35_Witness ==
  \E p, q \in Procs :
    /\ dl.procs[p].pc = "done" /\ dl.procs[p].ret.err = DownloadFailure
    /\ dl.procs[p].ret.cause = "moving temp file"
    /\ dl.procs[q].pc = "get" /\ dl.procs[q].attempt = 0
    /\ \E k \in 1..Len(dl.files) : dl.files[k] = Complete
    /\ dl.dest = 0 /\ dl.tmp = 0

\* C36: when two calls of EnsureModel for the same missing model run at once,
\* the file at the final path, whenever it exists, holds one complete
\* download and never a partially written one, and a call that reports
\* success leaves the final file in place.
C36_FinalFileComplete ==
  /\ dl.dest # 0 => dl.files[dl.dest] = Complete
  /\ \A p \in Procs :
       (dl.procs[p].pc = "done" /\ dl.procs[p].ret.err = NoError) => dl.dest # 0

\* ---------------------------------------------------------------------
\* SignalCleanup (progress.go): the caller's goroutine arms the handler
\* and later cancels it; the handler goroutine waits in a select on the
\* signal channel (capacity 1) and the done channel; the operating
\* system delivers signals while the channel is registered.
\* sg.main   position of the caller: "idle", "armed", "stopping" (after
\*           signal.Stop, before close(done)), "cancelled" (cancel returned)
\* sg.h      position of the handler goroutine
\* sg.path   the string partialPath points to; sg.seen the values it has
\*           held since the goroutine was started (the goroutine reads it
\*           without synchronisation, so a read yields any of them)
\* sg.files  the files that exist; sg.removed the arguments of os.Remove
\* sg.exit   <<>> while the process runs, <<status>> after os.Exit
\* ---------------------------------------------------------------------
MaxSignals == 2   \* signals the operating system sends
MaxWrites == 2    \* assignments of the caller to *partialPath
Signals == {"SIGINT", "SIGTERM"}
OutputPaths == {"", "out.srt"}

Alive(s) == s.exit = <<>>

\* SignalCleanup up to the go statement: make(ch, 1), signal.Notify,
\* make(done), go func
SignalCleanup(s, ptr) ==
  [s EXCEPT !.main = "armed", !.ptr = ptr, !.notify = TRUE, !.ch = <<>>,
            !.done = FALSE, !.h = "spawned", !.seen = {s.path}]

\* the caller assigns *partialPath and, for a non-empty name, creates
\* the output file of that name
WritePath(s, v) ==
  [s EXCEPT !.path = v, !.seen = IF s.h = "none" THEN @ ELSE @ \cup {v},
            !.files = IF v = "" THEN @ ELSE @ \cup {v}, !.writes = @ + 1]

\* os/signal's non-blocking send: handed to a goroutine waiting in the
\* select, else buffered when the channel has room, else dropped
Deliver(s, sig) ==
  IF s.h = "parked" THEN [s EXCEPT !.h = "signalled", !.sent = @ + 1]
  ELSE IF Len(s.ch) < 1 THEN [s EXCEPT !.ch = <<sig>>, !.sent = @ + 1]
  ELSE [s EXCEPT !.sent = @ + 1]

\* the cases of the select that can proceed when the goroutine reaches it
Ready(s) ==
  (IF s.ch # <<>> THEN {"signalled"} ELSE {}) \cup (IF s.done THEN {"released"} ELSE {})

\* the select statement: one of the ready cases, chosen by the runtime,
\* or the goroutine waits
SelectCase(s, case) ==
  IF case = "signalled" THEN [s EXCEPT !.h = "signalled", !.ch = <<>>]
  ELSE [s EXCEPT !.h = case]

\* the values a read of *partialPath by the handler can yield
PathReads(s) == s.seen

\* if partialPath != nil && *partialPath != ""
TestPath(s, r) ==
  IF s.ptr /\ r # "" THEN [s EXCEPT !.h = "remove"]
  ELSE [s EXCEPT !.h = "exit", !.stderr = Append(@, "Interrupted.")]

\* os.Remove(*partialPath)
OsRemove(s, r) ==
  [s EXCEPT !.files = @ \ {r}, !.removed = Append(@, r), !.h = "print"]

\* fmt.Fprintf(os.Stderr, "\nInterrupted, removed partial file: %s\n", ...)
PrintRemoved(s) ==
  [s EXCEPT !.stderr = Append(@, "Interrupted, removed partial file"), !.h = "exit"]

\* os.Exit(1)
OsExit(s) == [s EXCEPT !.exit = <<1>>, !.h = "exited"]

\* case <-done: the goroutine returns
HandlerReturns(s) == [s EXCEPT !.h = "returned"]

\* cancel, first statement: signal.Stop(ch); no signal is sent on ch
\* once it has returned
SignalStop(s) == [s EXCEPT !.main = "stopping", !.notify = FALSE]

\* cancel, second statement: close(done) wakes a goroutine waiting in the
\* select; cancel returns
CloseDone(s) ==
  [s EXCEPT !.main = "cancelled", !.done = TRUE,
            !.h = IF @ = "parked" THEN "released" ELSE @]

ApplySignals(s) ==
  /\ sg' = s
  /\ UNCHANGED << audioVars, trackVars, toolVars, rg, dl >>

CallSignalCleanup ==
  /\ sg.main = "idle"
  /\ \E ptr \in BOOLEAN : ApplySignals(SignalCleanup(sg, ptr))

CallerWrites ==
  /\ Alive(sg) /\ sg.writes < MaxWrites
  /\ \E v \in OutputPaths : v # sg.path /\ ApplySignals(WritePath(sg, v))

SignalArrives ==
  /\ Alive(sg) /\ sg.notify /\ sg.sent < MaxSignals
  /\ \E sig \in Signals : ApplySignals(Deliver(sg, sig))

HandlerSelects ==
  /\ Alive(sg) /\ sg.h = "spawned"
  /\ IF Ready(sg) = {} THEN ApplySignals(SelectCase(sg, "parked"))
     ELSE \E case \in Ready(sg) : ApplySignals(SelectCase(sg, case))

HandlerTests ==
  /\ Alive(sg) /\ sg.h = "signalled"
  /\ \E r \in PathReads(sg) : ApplySignals(TestPath(sg, r))

HandlerRemoves ==
  /\ Alive(sg) /\ sg.h = "remove"
  /\ \E r \in PathReads(sg) : ApplySignals(OsRemove(sg, r))

HandlerPrints == Alive(sg) /\ sg.h = "print" /\ ApplySignals(PrintRemoved(sg))

HandlerExits == Alive(sg) /\ sg.h = "exit" /\ ApplySignals(OsExit(sg))

HandlerDone == Alive(sg) /\ sg.h = "released" /\ ApplySignals(HandlerReturns(sg))

CancelStops == Alive(sg) /\ sg.main = "armed" /\ ApplySignals(SignalStop(sg))

CancelCloses == Alive(sg) /\ sg.main = "stopping" /\ ApplySignals(CloseDone(sg))

NextSignal ==
  \/ CallSignalCleanup
  \/ CallerWrites
  \/ SignalArrives
  \/ HandlerSelects
  \/ HandlerTests
  \/ HandlerRemoves
  \/ HandlerPrints
  \/ HandlerExits
  \/ HandlerDone
  \/ CancelStops
  \/ CancelCloses

SpecSignal == Init /\ [][NextSignal]_vars

\* C37: once cancel has returned the handler neither removes a file nor
\* exits the process, even for a signal delivered before the cancel and not
\* yet handled; before that, a signal makes the handler remove the file
\* named by *partialPath only when the name is not empty, and exit with
\* status 1.
C37_CancelStopsHandler ==
  [][/\ sg.main = "cancelled" =>
          /\ sg.files \subseteq sg'.files
          /\ sg'.exit = sg.exit
     /\ \A f \in sg.files \ sg'.files : sg.ptr /\ f # "" /\ f \in PathReads(sg)
     /\ sg'.exit # sg.exit => sg'.exit = <<1>>]_vars

\* ---------------------------------------------------------------------
\* PickAudioTracks reading from a pipe or a file: the input is what it
\* was when the call began, nobody types more, and the loop of lines
\* 272-302 runs on as long as it can.
\* ---------------------------------------------------------------------
PipedLines ==
  { <<"A", "L", "l", "\n">>, <<" ", "2", "\t", "\n">>, <<"+", "3", "\n">>,
    <<"b", "a", "d", "\n">>, <<"0", "\n">>, <<"\n">> }

PipedInputs == UNION { [1..n -> PipedLines] : n \in 0..MaxLines }

\* the caller invokes PickAudioTracks(tracks, -1) with several tracks and
\* standard input redirected
CallPiped ==
  /\ sel.pc = "idle"
  /\ \E tracks \in { t \in TrackLists : Len(t) >= 2 }, in \in PipedInputs :
       ApplySel([sel |-> [IdleSel EXCEPT !.pc = "entry", !.op = "PickAudioTracks"],
                 tracks |-> tracks, stdin |-> in, stdout |-> <<>>])

NextPiped == CallPiped \/ Select \/ Choose

SpecPiped == Init /\ [][NextPiped]_vars /\ WF_vars(Select \/ Choose)

\* the call is in the loop of the interactive branch, or has returned from it
Interactive ==
  sel.op = "PickAudioTracks" /\ sel.manual < 0 /\ Len(selTracks) >= 2
    /\ sel.pc \in {"prompt", "done"}

AtPrompt == Interactive /\ sel.pc = "prompt"

\* the line is a valid ordinal or an "a"/"all" token for the tracks listed
ValidChoice(line) ==
  WantsAll(TrimSpace(line)) \/ InRange(Atoi(TrimSpace(line)), Len(selTracks))

\* the lines not yet returned by ReadString
Unread == sel.rbuf \o stdin

ValidAhead == \E i \in 1..Len(Unread) : ValidChoice(Unread[i])

\* C38: in interactive mode PickAudioTracks returns only after reading a
\* valid ordinal or an "a"/"all" token, and without an error; end of input
\* is read as an empty, invalid line; the call returns if and only if the
\* input holds a valid choice, and asks again and again once the input is
\* used up without one.
C38_ReturnsOnValidChoiceOnly ==
  /\ [](Interactive /\ sel.pc = "done" =>
          /\ sel.err = NoError /\ ~sel.indices.nil
          /\ sel.typed # <<>> /\ ValidChoice(sel.typed[Len(sel.typed)])
          /\ \A i \in 1..(Len(sel.typed) - 1) : ~ValidChoice(sel.typed[i]))
  /\ [][(AtPrompt /\ ~ValidAhead) =>
          /\ (AtPrompt /\ ~ValidAhead)'
          /\ Unread = <<>> => sel'.typed = Append(sel.typed, <<>>)
          /\ sel'.reads = sel.reads + 1]_vars
  /\ [](AtPrompt /\ ~ValidAhead /\ sel.reads < MaxReads => ENABLED Choose)
  /\ (AtPrompt /\ ValidAhead) ~> (Interactive /\ sel.pc = "done")

\* the input held two invalid lines; both were read and rejected, then the
\* end of input was read as an empty line and rejected, and the call is at
\* its prompt again
C38_Witness ==
  /\ AtPrompt /\ Unread = <<>>
  /\ Len(sel.typed) = 3 /\ sel.typed[1] # <<>> /\ sel.typed[2] # <<>> /\ sel.typed[3] = <<>>
  /\ Len(stdout) >= 6 /\ stdout[Len(stdout)].text = "Invalid choice"

\* ---------------------------------------------------------------------
\* The pipeline for one file run with a manual track override: call 1
\* probes the file, PickAudioTracks is given the tracks probed and the
\* override, and call 2 extracts each index PickAudioTracks returned from
\* the same file.
\* ---------------------------------------------------------------------
Probed == Probing(1) /\ Returned(1) /\ call[1].ret.err = NoError

PickedOk == sel.op = "PickAudioTracks" /\ sel.pc = "done" /\ sel.err = NoError

\* streamIndices, err := PickAudioTracks(tracks, audioTrack)
PickWithOverride ==
  /\ Probed /\ sel.pc = "idle"
  /\ \E manual \in 0..MaxStreamIndex :
       ApplySel([sel |-> [IdleSel EXCEPT !.pc = "entry", !.op = "PickAudioTracks",
                                         !.manual = manual],
                 tracks |-> call[1].ret.tracks, stdin |-> <<>>, stdout |-> <<>>])

\* for _, streamIdx := range streamIndices { ... ExtractAudio(file, streamIdx) }
ExtractPicked ==
  /\ PickedOk /\ call[2].pc = "idle"
  /\ \E i \in 1..Len(sel.indices.data), allocFail \in AllocSites :
       call' = [call EXCEPT ![2] = Scheduled(2, Started(@, "extract", call[1].path,
                                                        sel.indices.data[i], allocFail))]
  /\ UNCHANGED << sessions, decoders, resamplers, trackVars, toolVars, concVars >>

NextPipeline ==
  \/ CallProbeAudioTracks(1)
  \/ CallSteps(1)
  \/ PickWithOverride
  \/ Select
  \/ ExtractPicked
  \/ CallSteps(2)

SpecPipeline == Init /\ [][NextPipeline]_vars

\* the override names no audio stream of the file probed
Unlisted(path, K) ==
  StreamsAt(path, K) = {} \/ StreamAt(path, K).media # "audio"

\* C39: a manual override K is returned by PickAudioTracks as [K] whatever
\* the tracks probed, and is rejected by ExtractAudio(path, K): with
\* StreamNotFound when no stream of the container has native index K, with
\* WrongStreamType when the stream with that index is not audio; in both
\* cases no packet is read, no audio of another stream is collected and no
\* buffer is returned.
C39_OverrideRejectedAtExtraction ==
  (sel.op = "PickAudioTracks" /\ sel.pc = "done" /\ sel.manual >= 0) =>
    /\ sel.err = NoError /\ sel.indices = Ints(<< sel.manual >>)
    /\ call[2].pc # "idle" =>
         /\ Extracting(2) /\ call[2].path = call[1].path /\ call[2].idx = sel.manual
         /\ Unlisted(call[2].path, call[2].idx) =>
              /\ call[2].samples = NilSlice /\ call[2].ret.buf = NilSlice
              /\ call[2].audioStream = NoStream
              /\ ~Has(LogOf(2), "ReadFrame") /\ ~Has(LogOf(2), "AllocCodecContext")
              /\ call[2].pc \in {"unwind", "done"} => call[2].ret.err # NoError
              /\ (call[2].pc \in {"unwind", "done"} /\ call[2].allocFail # 1) =>
                   call[2].ret.err = IF StreamsAt(call[2].path, call[2].idx) = {}
                                       THEN StreamNotFound ELSE WrongStreamType

\* the file has audio tracks, the override names none of its streams, and
\* extraction has returned StreamNotFound
C39_Witness ==
  /\ PickedOk /\ sel.manual >= 0 /\ selTracks # <<>>
  /\ \A i \in 1..Len(selTracks) : selTracks[i].StreamIndex # sel.manual
  /\ Extracting(2) /\ Returned(2) /\ call[2].idx = sel.manual
  /\ StreamsAt(call[2].path, call[2].idx) = {}
  /\ call[2].ret.err = StreamNotFound /\ call[2].ret.buf = NilSlice
  /\ Has(LogOf(2), "FindStreamInfo")

====
